---- MODULE Spec2Model ----
(***************************************************************************)
(* A model of the smite-chatbot repository: the ChatBot orchestrator and   *)
(* its provider, the Streamlit UI, the relational / vector / hybrid        *)
(* document stores and their population CLI, the hybrid search pipeline,   *)
(* the HTTP API service, the scraper and the document processors.          *)
(*                                                                         *)
(* Strings of the program are modelled as sequences of tokens, so that     *)
(* concatenation (the RAG prompt) is sequence concatenation and a bare     *)
(* message m is the one-token content <<m>>.  Similarities are integers in *)
(* thousandths (1.0 is 1000); temperatures are integers in tenths.         *)
(***************************************************************************)
EXTENDS Integers, Sequences, FiniteSets, TLC

VARIABLES
    \* ---- ChatBot (models/chatbot.py) ----
    llm_kind,              \* which provider object self.llm is
    memory_enabled,        \* ChatBot.memory_enabled
    max_history,           \* config["max_conversation_history"]
    conversation_history,  \* ChatBot.conversation_history (deque, maxlen 2 * max_history)
    has_store,             \* ChatBot.vector_store is not None
    chat_calls,            \* number of chat() calls made
    returned,              \* number of chat() calls that returned a response
    chat_log,              \* (message, reply) of the memory-enabled calls that returned, since the last clear
    all_memory,            \* every call so far ran with memory enabled and the history was never cleared
    last_call,             \* what the last chat() call did
    store_kind,            \* which object ChatBot.vector_store is ("none" for None)
    method_call,           \* the last call of a method the ChatBot class does not define
    messages,              \* st.session_state.messages, the transcript of the Streamlit UI
    session_state,         \* the settings kept in st.session_state, None before the first script run
    script,                \* where the script run that handles a prompt stands, and how the last run ended
    \* ---- stores (storage/database.py, vector_store.py, hybrid_store.py) ----
    db,                    \* documents table, rows in rowid / created_at order
    vec,                   \* the vector collection: set of stored rows
    collection,            \* VectorStore.collection: a handle to the "live" collection or to a "deleted" one
    last_ok,               \* per id, the last Document whose relational insert was committed
    ret,                   \* what the last store operation returned
    \* ---- hybrid search ----
    search,                \* inputs and result of the last search
    \* ---- HTTP API (api/app.py) ----
    phase,                 \* "starting" before the lifespan startup ran, then "ready" or "failed"
    app_state,             \* the module-level app_state dictionary
    init_attempts,         \* how many times initialize_chatbot() was called
    llm_config,            \* chatbot.llm.config (temperature, max_tokens), temperature in tenths
    reqs,                  \* the in-flight requests, per connection slot
    arrivals,              \* number of requests received so far
    running,               \* the request whose coroutine holds the event loop, or "none"
    handled,               \* the answered requests, in the order they were answered
    chatbot_reached,       \* how many times a handler was given the chatbot object
    \* ---- scraper (scraper/base.py) ----
    fetch,                 \* the BaseScraper.get call in progress: arguments, loop position, GETs, sleeps
    \* ---- provider object (models/openai_chatbot.py) ----
    provider,              \* the OpenAIChatBot instance: its attributes and the last call on it
    \* ---- processors (processors/*.py) ----
    proc                   \* the last processor call: its input and what it produced

ChatVars == <<llm_kind, memory_enabled, max_history, conversation_history, has_store,
              chat_calls, returned, chat_log, all_memory, last_call, store_kind,
              method_call, messages, session_state, script>>

StoreVars == <<db, vec, collection, last_ok, ret>>

SearchVars == <<search>>

ApiVars == <<phase, app_state, init_attempts, llm_config, reqs, arrivals, running, handled,
             chatbot_reached>>

ToolVars == <<fetch, provider, proc>>

vars == <<ChatVars, StoreVars, SearchVars, ApiVars, ToolVars>>

\* ------------------------------------------------------------------------
\* Generic helpers
\* ------------------------------------------------------------------------

Min(a, b) == IF a <= b THEN a ELSE b

Range(s) == {s[i] : i \in 1..Len(s)}

\* All sequences over S of length at most n.
SeqsUpTo(S, n) == UNION {[1..k -> S] : k \in 0..n}

RECURSIVE Concat(_)
\* list.extend over a sequence of lists
Concat(lists) == IF lists = <<>> THEN <<>> ELSE Head(lists) \o Concat(Tail(lists))

\* An Optional value or a dictionary entry: None / absent, or given.
None == [given |-> FALSE]

Some(v) == [given |-> TRUE, value |-> v]

\* ------------------------------------------------------------------------
\* Bounds of the model
\* ------------------------------------------------------------------------

\* Largest max_conversation_history the model constructs a ChatBot with.
MaxHistoryBound == 2

\* Number of chat() calls explored.
MaxCalls == 3

\* ------------------------------------------------------------------------
\* The state of a subsystem before anything has used it.  Each specification
\* below drives one subsystem and leaves the others in this state.
\* ------------------------------------------------------------------------

\* last_call before any chat() call.
NoCall == [outcome |-> "none", memory |-> FALSE, system |-> "none", message |-> "",
           use_rag |-> FALSE, msgs |-> <<>>, hist_before |-> <<>>, hist_after |-> <<>>,
           content |-> <<>>,
           sources |-> <<>>, searches |-> 0, api_fails |-> FALSE, events |-> <<>>,
           store_calls |-> <<>>, reply |-> "", context |-> <<>>]

\* method_call before any call of a method the class lacks.
NoMethodCall == [name |-> "none"]

\* ret before any store operation.
NoRet == [op |-> "none"]

DocIds == {"d1", "d2", "d3"}

\* Ids the write-path specification ingests.
StoreIds == {"d1", "d2"}

\* No script run of the UI in progress; error is what ended the last run.
NoRun == [pc |-> "idle", error |-> "none"]

ChatIdle ==
    /\ llm_kind = "wrapper"
    /\ memory_enabled = FALSE
    /\ max_history = 0
    /\ conversation_history = <<>>
    /\ has_store = FALSE
    /\ chat_calls = 0
    /\ returned = 0
    /\ chat_log = <<>>
    /\ all_memory = TRUE
    /\ last_call = NoCall
    /\ store_kind = "none"
    /\ method_call = NoMethodCall
    /\ messages = <<>>
    /\ session_state = None
    /\ script = NoRun

StoreIdle ==
    /\ db = <<>>
    /\ vec = {}
    /\ collection = "live"
    /\ last_ok = [id \in DocIds |-> {}]
    /\ ret = NoRet

\* search before any search call.
NoSearch == [mode |-> "none"]

SearchIdle == search = NoSearch

\* Connection slots of the HTTP server.
ReqIds == {"A", "B"}

\* A slot with no request in flight.
NoReq == [pc |-> "idle"]

\* No HTTP application: nothing started, no request.
ApiQuiet ==
    /\ phase = "starting"
    /\ app_state = [initialized |-> FALSE, chatbot |-> "none"]
    /\ init_attempts = 0
    /\ reqs = [r \in ReqIds |-> NoReq]
    /\ arrivals = 0
    /\ running = "none"
    /\ handled = <<>>
    /\ chatbot_reached = 0

\* app.py, lines 25-29, before the lifespan startup.
ApiIdle == ApiQuiet /\ llm_config = <<>>

\* No scraper fetch, no provider object and no processor call yet.
NoFetch == [pc |-> "idle"]

NoProvider == [state |-> "none"]

NoProc == [op |-> "none"]

ToolsIdle == fetch = NoFetch /\ provider = NoProvider /\ proc = NoProc

\* ------------------------------------------------------------------------
\* ChatBot  (src/src/smite_chatbot/models/chatbot.py)
\* ------------------------------------------------------------------------

Messages == {"m1", "m2"}

Replies == {"r1", "r2"}

\* system_prompt argument: None, the empty string, or a non-empty text.
SystemPrompts == {"none", "empty", "given"}

\* Retrieval hits as retrieve_context normalises them.
Ctx1 == [content |-> "ctx1", source |-> "wiki"]

Ctx2 == [content |-> "ctx2", source |-> "Unknown"]

Contexts == {<<>>, <<Ctx1, Ctx2>>, <<Ctx2, Ctx1>>}

ChatMessage(role, content) == [role |-> role, content |-> content]

\* "wrapper": an LLMWrapper subclass that implements generate (such as MockLLM).
\* "openai":  the OpenAIChatBot of openai_chatbot.py, which subclasses ChatBot and
\*            defines _generate_response but no generate.
ProviderKinds == {"wrapper", "openai"}

ProviderHasGenerate(kind) == kind = "wrapper"

\* What ChatBot.vector_store can be: a VectorStore, a HybridDocumentStore, or
\* the unittest.mock.Mock() that tests/test_chatbot.py attaches.
StoreKinds == {"vector", "hybrid", "mock"}

\* The store the applications construct the ChatBot with (api/app.py line 105,
\* app/streamlit_app.py line 58).
AppStoreKinds == {"hybrid"}

\* retrieve_context, lines 36-41: the method called on the attached store.
StoreSearchMethod(kind) == "search"

\* Whether what that call returns can be iterated by the comprehension of
\* lines 43-49: both stores return a list; Mock().search(...) returns a Mock,
\* and iterating a Mock raises TypeError.
SearchResultIterable(kind) == kind # "mock"

\* deque(maxlen=n).append(x): a full deque drops its oldest entry; maxlen 0 keeps nothing.
DequeAppendNoEvict(q, x, maxlen) == Append(q, x)

DequeAppend(q, x, maxlen) ==
    IF maxlen = 0 THEN q
    ELSE IF Len(q) >= maxlen THEN Append(Tail(q), x)
    ELSE Append(q, x)

HistoryMaxLenOdd(n) == n * 2 + 1

\* deque(maxlen=max_history * 2)
HistoryMaxLen(n) == n * 2

RECURSIVE CtxTxt(_)
CtxTxt(context) ==
    IF context = <<>> THEN <<>>
    ELSE <<"Source:", Head(context).source, Head(context).content>>
         \o (IF Len(context) > 1 THEN <<"\n\n">> ELSE <<>>)
         \o CtxTxt(Tail(context))

BuildRagPromptNoFallback(query, context) ==
    <<"Answer the question using the context. If not relevant, say so.", "Context:">>
    \o CtxTxt(context)
    \o <<"Question:", query, "Answer:">>

\* _build_rag_prompt, lines 51-65.
BuildRagPrompt(query, context) ==
    IF context = <<>> THEN <<query>>
    ELSE <<"Answer the question using the context. If not relevant, say so.", "Context:">>
         \o CtxTxt(context)
         \o <<"Question:", query, "Answer:">>

\* chat(), lines 72-78: the optional system message, then the history if memory is enabled.
HistoryForProviderAlways(mem, hist) == hist

HistoryForProvider(mem, hist) == IF mem THEN hist ELSE <<>>

SystemMessages(sys) ==
    IF sys = "given" THEN <<ChatMessage("system", <<"SYS">>)>> ELSE <<>>

\* chat(), lines 80-87.
UserContent(message, context) ==
    IF context # <<>> THEN BuildRagPrompt(message, context) ELSE <<message>>

\* The order in which chat() does things, lines 80-90: retrieve_context is
\* called and returns (line 83), the user message is appended (line 87), then
\* self.llm.generate is looked up and called (line 90).
ChatEvents(retrieving, generates) ==
    (IF retrieving THEN <<"search_issued", "search_returned">> ELSE <<>>)
    \o <<"user_message_fixed">>
    \o (IF generates THEN <<"generate_issued", "generate_returned">>
        ELSE <<"generate_lookup_raised">>)

HistoryUserEntryAugmented(message, user_content) == ChatMessage("user", user_content)

\* line 96: the history entry is built from message, not from user_content.
HistoryUserEntry(message, user_content) == ChatMessage("user", <<message>>)

\* One chat() call.  rs is what the attached store's search returns, reply what
\* the provider's generate returns, api_fails whether the external LLM API is
\* failing during the call.
ChatCall(message, use_rag, sys, rs, reply, api_fails) ==
    /\ chat_calls < MaxCalls
    /\ LET retrieving == use_rag /\ has_store
           \* line 43: the comprehension over what the store's search returned
           retrieve_raises == retrieving /\ ~SearchResultIterable(store_kind)
           context == IF retrieving THEN rs ELSE <<>>
           msgs == SystemMessages(sys)
                   \o HistoryForProvider(memory_enabled, conversation_history)
                   \o (IF retrieve_raises THEN <<>>
                       ELSE <<ChatMessage("user", UserContent(message, context))>>)
           raises == retrieve_raises \/ ~ProviderHasGenerate(llm_kind)
           \* lines 95-97: two appends to the deque, only if memory is enabled
           appended == DequeAppend(
                           DequeAppend(conversation_history,
                                       HistoryUserEntry(message,
                                                        UserContent(message, context)),
                                       HistoryMaxLen(max_history)),
                           ChatMessage("assistant", <<reply>>),
                           HistoryMaxLen(max_history))
           hist_new == IF raises \/ ~memory_enabled THEN conversation_history
                       ELSE appended
           call == [outcome |-> IF raises THEN "raised" ELSE "returned",
                    memory |-> memory_enabled, system |-> sys,
                    message |-> message, use_rag |-> use_rag, msgs |-> msgs,
                    hist_before |-> conversation_history, hist_after |-> hist_new,
                    content |-> IF raises THEN <<>> ELSE <<reply>>,
                    sources |-> IF raises THEN <<>> ELSE context,
                    searches |-> IF retrieving THEN 1 ELSE 0,
                    api_fails |-> api_fails,
                    events |-> IF retrieve_raises
                               THEN <<"search_issued", "search_returned",
                                      "retrieve_context_raised">>
                               ELSE ChatEvents(retrieving, ~raises),
                    store_calls |-> IF retrieving THEN <<StoreSearchMethod(store_kind)>>
                                    ELSE <<>>,
                    reply |-> IF raises THEN "" ELSE reply,
                    context |-> IF retrieve_raises THEN <<>> ELSE context]
       IN /\ (~retrieving => rs = <<>>)
          /\ (retrieve_raises => rs = <<>>)
          \* line 90: self.llm.generate(msgs); on a provider without generate the
          \* attribute lookup raises and nothing after it runs
          /\ (raises => reply = "r1")
          /\ (~raises => api_fails = FALSE)
          /\ chat_calls' = chat_calls + 1
          /\ last_call' = call
          /\ conversation_history' = hist_new
          /\ returned' = IF raises THEN returned ELSE returned + 1
          /\ all_memory' = IF raises THEN all_memory ELSE (all_memory /\ memory_enabled)
          /\ chat_log' = IF raises \/ ~memory_enabled THEN chat_log
                         ELSE Append(chat_log, <<message, reply>>)
    /\ UNCHANGED <<llm_kind, memory_enabled, max_history, has_store, store_kind, method_call>>
    /\ UNCHANGED <<StoreVars, SearchVars, ApiVars, ToolVars>>

\* chat() called directly, outside the UI.
Chat(message, use_rag, sys, rs, reply, api_fails) ==
    /\ ChatCall(message, use_rag, sys, rs, reply, api_fails)
    /\ UNCHANGED <<messages, session_state, script>>

\* chatbot.memory_enabled = flag.  The attribute (chatbot.py line 18) is public
\* and the class has no setter: the holder of the ChatBot assigns it, as the
\* statement of app/streamlit_app.py line 186 does.  The settings block that
\* statement stands in is SettingsChanged below.
SetMemory(flag) ==
    /\ memory_enabled' = flag
    /\ UNCHANGED <<llm_kind, max_history, conversation_history, has_store, chat_calls,
                   returned, chat_log, all_memory, last_call, store_kind, method_call,
                   messages, session_state, script>>
    /\ UNCHANGED <<StoreVars, SearchVars, ApiVars, ToolVars>>

\* app/streamlit_app.py line 210: chatbot.conversation_history.clear()
ClearHistory ==
    /\ conversation_history # <<>>
    /\ conversation_history' = <<>>
    /\ chat_log' = <<>>
    /\ all_memory' = FALSE
    /\ UNCHANGED <<llm_kind, memory_enabled, max_history, has_store, chat_calls,
                   returned, last_call, store_kind, method_call, messages, session_state,
                   script>>
    /\ UNCHANGED <<StoreVars, SearchVars, ApiVars, ToolVars>>

\* set_vector_store, lines 27-29: the given store replaces whatever was attached.
SetVectorStore(kind) ==
    /\ has_store' = TRUE
    /\ store_kind' = kind
    /\ UNCHANGED <<llm_kind, memory_enabled, max_history, conversation_history,
                   chat_calls, returned, chat_log, all_memory, last_call, method_call,
                   messages, session_state, script>>
    /\ UNCHANGED <<StoreVars, SearchVars, ApiVars, ToolVars>>

\* ChatBot.__init__, lines 14-25.
InitChat ==
    /\ llm_kind \in ProviderKinds
    /\ memory_enabled \in BOOLEAN
    /\ max_history \in 0..MaxHistoryBound
    /\ conversation_history = <<>>
    /\ has_store \in BOOLEAN
    /\ store_kind \in (IF has_store THEN AppStoreKinds ELSE {"none"})
    /\ method_call = NoMethodCall
    /\ messages = <<>>
    /\ session_state = None
    /\ script = NoRun
    /\ chat_calls = 0
    /\ returned = 0
    /\ chat_log = <<>>
    /\ all_memory = TRUE
    /\ last_call = NoCall
    /\ StoreIdle /\ SearchIdle /\ ApiIdle /\ ToolsIdle

NextChat ==
    \/ \E m \in Messages, use_rag \in BOOLEAN, sys \in SystemPrompts,
          rs \in Contexts, reply \in Replies, api_fails \in BOOLEAN :
            Chat(m, use_rag, sys, rs, reply, api_fails)
    \/ \E flag \in BOOLEAN : SetMemory(flag)
    \/ ClearHistory
    \/ \E kind \in AppStoreKinds : SetVectorStore(kind)

SpecChat == InitChat /\ [][NextChat]_vars

\* ------------------------------------------------------------------------
\* A ChatBot constructed with default arguments, as tests/test_chatbot.py does
\* ------------------------------------------------------------------------

\* memory: bool = False (line 15)
DefaultMemory == FALSE

\* self.config.get("max_conversation_history", 10) (line 21)
DefaultMaxHistory == 10

\* The llm_model argument: a provider object, or a model name string as in
\* MockChatBot("mock-model"); a str has no generate either.
DefaultProviderKinds == ProviderKinds \cup {"model_name"}

\* The methods the ChatBot class defines (chatbot.py) and the two that
\* MockChatBot adds (test_chatbot.py lines 10-18).
ChatBotMethods == {"__init__", "set_vector_store", "retrieve_context", "_build_rag_prompt",
                   "_to_wire", "chat", "_prepare_messages", "_generate_response"}

\* The history methods the test calls.
HistoryMethods == {"get_history", "clear_history"}

\* chatbot.<name>() for a name the class does not define: the attribute
\* lookup raises AttributeError and nothing changes.
CallUndefinedMethod(name) ==
    /\ name \notin ChatBotMethods
    /\ method_call # [name |-> name, outcome |-> "AttributeError"]
    /\ method_call' = [name |-> name, outcome |-> "AttributeError"]
    /\ UNCHANGED <<llm_kind, memory_enabled, max_history, conversation_history, has_store,
                   chat_calls, returned, chat_log, all_memory, last_call, store_kind,
                   messages, session_state, script>>
    /\ UNCHANGED <<StoreVars, SearchVars, ApiVars, ToolVars>>

\* ChatBot(llm_model): config None, vector_store None, memory False.
InitDefaults ==
    /\ llm_kind \in DefaultProviderKinds
    /\ memory_enabled = DefaultMemory
    /\ max_history = DefaultMaxHistory
    /\ conversation_history = <<>>
    /\ has_store = FALSE
    /\ store_kind = "none"
    /\ method_call = NoMethodCall
    /\ messages = <<>>
    /\ session_state = None
    /\ script = NoRun
    /\ chat_calls = 0
    /\ returned = 0
    /\ chat_log = <<>>
    /\ all_memory = TRUE
    /\ last_call = NoCall
    /\ StoreIdle /\ SearchIdle /\ ApiIdle /\ ToolsIdle

NextDefaults ==
    \/ \E m \in Messages, use_rag \in BOOLEAN, sys \in SystemPrompts,
          rs \in Contexts, reply \in Replies, api_fails \in BOOLEAN :
            Chat(m, use_rag, sys, rs, reply, api_fails)
    \/ \E kind \in StoreKinds : SetVectorStore(kind)
    \/ \E name \in HistoryMethods : CallUndefinedMethod(name)

SpecDefaults == InitDefaults /\ [][NextDefaults]_vars

\* ------------------------------------------------------------------------
\* The Streamlit UI  (app/streamlit_app.py)
\* ------------------------------------------------------------------------

\* An entry of st.session_state.messages; sources is <<>> when the key is absent.
TranscriptEntry(role, content, sources) ==
    [role |-> role, content |-> content, sources |-> sources]

\* f"Error generating response: {str(e)}", line 306.
ErrorMessage(outcome) == <<"Error generating response:", outcome>>

\* What the try / except around chatbot.chat appends, lines 298-303 and 305-314.
AssistantEntries(call) ==
    IF call.outcome = "returned"
    THEN <<TranscriptEntry("assistant", call.content, call.sources)>>
    ELSE <<TranscriptEntry("assistant", ErrorMessage(call.outcome), <<>>)>>

\* OpenAIChatBot.__init__: default_config (the two keys the sliders and a
\* request can override)
DefaultConfig == [temperature |-> 7, max_tokens |-> 1000]

\* OpenAIChatBot.update_config: self.config.update(kwargs)
UpdateConfig(config, kwargs) ==
    [k \in DOMAIN config \cup DOMAIN kwargs |->
        IF k \in DOMAIN kwargs THEN kwargs[k] ELSE config[k]]

\* Whether the provider object defines update_config: OpenAIChatBot does
\* (openai_chatbot.py lines 85-87), LLMWrapper (llm_wrapper.py) does not.
HasUpdateConfig(kind) == kind = "openai"

\* The values of the settings widgets when the page is first rendered, lines
\* 122-144 and 166; temperature in tenths.
DefaultWidgets ==
    [model_name |-> "gpt-4o-mini", temperature |-> 7, max_tokens |-> 512,
     use_memory |-> FALSE]

\* The values the user sets them to: the temperature slider and the
\* "Enable Memory" checkbox are moved.
WidgetValues ==
    {[DefaultWidgets EXCEPT !.temperature = t, !.use_memory = m] :
        t \in {7, 3}, m \in BOOLEAN}

\* A script run whose settings widgets differ from what st.session_state
\* holds, lines 168-186; the first run of a session is one, with the default
\* widget values.  The session values are stored first; then update_config is
\* called on the provider, and only after it returned is memory_enabled
\* assigned.  On a provider without update_config the call raises
\* AttributeError, which ends the run.
SettingsChanged(widgets) ==
    /\ script.pc = "idle"
    /\ session_state # Some(widgets)
    /\ (session_state = None => widgets = DefaultWidgets)
    /\ session_state' = Some(widgets)
    /\ IF HasUpdateConfig(llm_kind)
       THEN /\ llm_config' = UpdateConfig(llm_config,
                                          [temperature |-> widgets.temperature,
                                           max_tokens |-> widgets.max_tokens])
            /\ memory_enabled' = widgets.use_memory
            /\ script' = NoRun
       ELSE /\ UNCHANGED <<llm_config, memory_enabled>>
            /\ script' = [pc |-> "idle", error |-> "AttributeError"]
    /\ UNCHANGED <<llm_kind, max_history, conversation_history, has_store, chat_calls,
                   returned, chat_log, all_memory, last_call, store_kind, method_call,
                   messages>>
    /\ UNCHANGED <<phase, app_state, init_attempts, reqs, arrivals, running, handled,
                   chatbot_reached>>
    /\ UNCHANGED <<StoreVars, SearchVars, ToolVars>>

\* Prompts answered in one session, and the turns the transcript is let grow to.
MaxPrompts == 2

\* A prompt is submitted, lines 228-235: the user entry is appended to the
\* transcript and displayed.
SubmitPrompt(prompt, use_rag) ==
    /\ script.pc = "idle"
    /\ session_state # None
    /\ chat_calls < MaxPrompts
    /\ Len(messages) + 2 <= 2 * MaxPrompts
    /\ messages' = Append(messages, TranscriptEntry("user", <<prompt>>, <<>>))
    /\ script' = [pc |-> "generating", error |-> "none", prompt |-> prompt,
                  use_rag |-> use_rag]
    /\ UNCHANGED <<llm_kind, memory_enabled, max_history, conversation_history, has_store,
                   chat_calls, returned, chat_log, all_memory, last_call, store_kind,
                   method_call, session_state>>
    /\ UNCHANGED <<StoreVars, SearchVars, ApiVars, ToolVars>>

\* Lines 238-274 of the same run: chat() is called with the fixed system prompt.
GenerateResponse(rs, reply, api_fails) ==
    /\ script.pc = "generating"
    /\ ChatCall(script.prompt, script.use_rag, "given", rs, reply, api_fails)
    /\ script' = [pc |-> "responded", error |-> "none"]
    /\ UNCHANGED <<messages, session_state>>

\* Lines 276-303 or 305-314 of the same run: the reply or the error is
\* displayed and appended to the transcript.
RecordResponse ==
    /\ script.pc = "responded"
    /\ messages' = messages \o AssistantEntries(last_call)
    /\ script' = NoRun
    /\ UNCHANGED <<llm_kind, memory_enabled, max_history, conversation_history, has_store,
                   chat_calls, returned, chat_log, all_memory, last_call, store_kind,
                   method_call, session_state>>
    /\ UNCHANGED <<StoreVars, SearchVars, ApiVars, ToolVars>>

\* The run is stopped before it reaches its end: the user touched a widget
\* while it was running, and Streamlit ends a running script at its next st.*
\* call (lines 235-239 before chat(), 276 or 307 after it) with an exception
\* that `except Exception` does not catch.  What the run stored in
\* st.session_state and in the ChatBot stays.
InterruptRun ==
    /\ script.pc \in {"generating", "responded"}
    /\ script' = NoRun
    /\ UNCHANGED <<llm_kind, memory_enabled, max_history, conversation_history, has_store,
                   chat_calls, returned, chat_log, all_memory, last_call, store_kind,
                   method_call, messages, session_state>>
    /\ UNCHANGED <<StoreVars, SearchVars, ApiVars, ToolVars>>

\* The "Clear Conversation" button, lines 207-211.
ClearConversation ==
    /\ script.pc = "idle"
    /\ session_state # None
    /\ messages # <<>> \/ conversation_history # <<>>
    /\ messages' = <<>>
    /\ conversation_history' = <<>>
    /\ chat_log' = <<>>
    /\ all_memory' = FALSE
    /\ script' = NoRun
    /\ UNCHANGED <<llm_kind, memory_enabled, max_history, has_store, chat_calls,
                   returned, last_call, store_kind, method_call, session_state>>
    /\ UNCHANGED <<StoreVars, SearchVars, ApiVars, ToolVars>>

\* The session after initialize_chatbot, lines 18-62 and 109-115, before the
\* settings block of the first script run: a hybrid store attached, memory
\* off, max_conversation_history 10, an empty transcript, the provider's
\* config updated with the default temperature and max_tokens (lines 38-47).
\* The provider is the one the app constructs or any LLMWrapper with generate.
InitUi ==
    /\ llm_kind \in ProviderKinds
    /\ memory_enabled = FALSE
    /\ max_history = DefaultMaxHistory
    /\ conversation_history = <<>>
    /\ has_store = TRUE
    /\ store_kind = "hybrid"
    /\ method_call = NoMethodCall
    /\ messages = <<>>
    /\ session_state = None
    /\ script = NoRun
    /\ chat_calls = 0
    /\ returned = 0
    /\ chat_log = <<>>
    /\ all_memory = TRUE
    /\ last_call = NoCall
    /\ llm_config = (IF HasUpdateConfig(llm_kind)
                     THEN UpdateConfig(DefaultConfig,
                                       [temperature |-> DefaultWidgets.temperature,
                                        max_tokens |-> DefaultWidgets.max_tokens])
                     ELSE <<>>)
    /\ StoreIdle /\ SearchIdle /\ ApiQuiet /\ ToolsIdle

NextUi ==
    \/ \E widgets \in WidgetValues : SettingsChanged(widgets)
    \/ \E prompt \in Messages, use_rag \in BOOLEAN : SubmitPrompt(prompt, use_rag)
    \/ \E rs \in Contexts, reply \in Replies, api_fails \in BOOLEAN :
            GenerateResponse(rs, reply, api_fails)
    \/ RecordResponse
    \/ InterruptRun
    \/ ClearConversation

SpecUi == InitUi /\ [][NextUi]_vars

\* ------------------------------------------------------------------------
\* Documents and the relational store  (storage/database.py)
\* ------------------------------------------------------------------------

\* Longest batch handed to insert_documents / add_documents.
MaxBatch == 2

\* The type each document id of the model is ingested with.
DocType(id) == IF id = "d2" THEN "item" ELSE "god"

\* ver stands for the remaining field values (content, metadata, source_url).
Document(id, ver) == [id |-> id, type |-> DocType(id), ver |-> ver]

\* d1 comes in two versions so that re-ingestion can change a row.
StoreDocs == {Document("d1", 1), Document("d1", 2), Document("d2", 1)}

IdsOf(rows) == {r.id : r \in rows}

RowsWithId(rows, id) == {rows[i] : i \in {j \in 1..Len(rows) : rows[j].id = id}}

\* INSERT OR REPLACE INTO documents: the row with the same primary key is
\* deleted and the new row gets a fresh rowid and created_at.
InsertOrIgnore(rows, doc) ==
    IF doc.id \in IdsOf(Range(rows)) THEN rows ELSE Append(rows, doc)

InsertOrReplace(rows, doc) ==
    SelectSeq(rows, LAMBDA r : r.id # doc.id) \o <<doc>>

\* insert_document: ok is FALSE when connecting, executing or committing raised.
InsertDocument(rows, doc, ok) == IF ok THEN InsertOrReplace(rows, doc) ELSE rows

RECURSIVE ExecuteAll(_, _, _, _)
\* The loop of insert_documents: the statements at the positions in fails raise
\* and are skipped, the others run inside the one transaction.
ExecuteAll(rows, docs, fails, i) ==
    IF i > Len(docs) THEN rows
    ELSE ExecuteAll(IF i \in fails THEN rows ELSE InsertOrReplace(rows, docs[i]),
                    docs, fails, i + 1)

TxnOutcomes == {"ok", "connect_fail", "commit_fail"}

\* insert_documents: the rows after the call.  Nothing is kept unless the
\* connection opened and the commit went through.
InsertDocumentsRows(rows, docs, fails, txn) ==
    IF txn = "ok" THEN ExecuteAll(rows, docs, fails, 1) ELSE rows

\* insert_documents: success_count counts the statements that ran.
InsertDocumentsCount(docs, fails, txn) ==
    IF txn = "connect_fail" THEN 0 ELSE Len(docs) - Cardinality(fails)

\* get_documents_by_type: rows of one type, ORDER BY created_at.
GetDocumentsByType(rows, type) == SelectSeq(rows, LAMBDA r : r.type = type)

\* ------------------------------------------------------------------------
\* The vector store  (storage/vector_store.py)
\* ------------------------------------------------------------------------

\* batch_size of VectorStore.add_documents
VectorBatchSize == 100

HasDuplicateIds(docs) == \E i, j \in 1..Len(docs) : i # j /\ docs[i].id = docs[j].id

\* collection.add: an id the collection already holds is left as it is (the
\* call either ignores it or raises, it never overwrites).
CollectionAdd(coll, docs) ==
    coll \cup {d \in Range(docs) : d.id \notin IdsOf(coll)}

\* VectorStore.add_document
VectorAddDocument(coll, doc, ok) == IF ok THEN CollectionAdd(coll, <<doc>>) ELSE coll

NumChunks(n) == (n + VectorBatchSize - 1) \div VectorBatchSize

Chunk(docs, c) ==
    SubSeq(docs, (c - 1) * VectorBatchSize + 1, Min(c * VectorBatchSize, Len(docs)))

RECURSIVE VectorAddChunks(_, _, _, _)
\* VectorStore.add_documents: the chunks in failed raise and are skipped.
VectorAddChunks(coll, docs, failed, c) ==
    IF c > NumChunks(Len(docs)) THEN coll
    ELSE VectorAddChunks(IF c \in failed THEN coll ELSE CollectionAdd(coll, Chunk(docs, c)),
                         docs, failed, c + 1)

VectorAddDocuments(coll, docs, failed) == VectorAddChunks(coll, docs, failed, 1)

RECURSIVE VectorAddCount(_, _, _)
VectorAddCount(docs, failed, c) ==
    IF c > NumChunks(Len(docs)) THEN 0
    ELSE (IF c \in failed THEN 0 ELSE Len(Chunk(docs, c))) + VectorAddCount(docs, failed, c + 1)

\* VectorStore.clear_all, lines 275-289: delete_collection and then
\* create_collection, inside one try; either call can raise.
ClearOutcomes == {"ok", "delete_raises", "create_raises"}

\* The rows of the collection after clear_all: when the delete raises the
\* collection stays as it was, otherwise its rows are gone.
VectorClearAll(coll, outcome) == IF outcome = "delete_raises" THEN coll ELSE {}

\* What clear_all returns.
ClearAllResult(outcome) == outcome = "ok"

\* self.collection after clear_all: line 280 assigns the new collection only
\* when create_collection returned; when it raised, the attribute still
\* refers to the collection that line 279 deleted.
CollectionAfterClear(handle, outcome) ==
    CASE outcome = "ok"            -> "live"
      [] outcome = "create_raises" -> "deleted"
      [] OTHER                     -> handle

\* Every call on a handle to a deleted collection raises: add_documents
\* loses all its batches (lines 111-113).
AllChunks(docs) == 1..NumChunks(Len(docs))

\* ------------------------------------------------------------------------
\* The hybrid store  (storage/hybrid_store.py)
\* ------------------------------------------------------------------------

KnownTypes == <<"god", "ability", "item", "patch", "god_change">>

\* add_document, lines 36-44
AddDocumentResult(db_ok, vec_ok) == db_ok /\ vec_ok

\* add_documents, lines 58-60
HybridSuccessCountDbOnly(db_success, vec_success) == db_success

HybridSuccessCount(db_success, vec_success) == Min(db_success, vec_success)

\* The Document, if any, that a committed batch leaves as the last one inserted for id.
LastInserted(docs, fails, id, before) ==
    LET hits == {i \in 1..Len(docs) : i \notin fails /\ docs[i].id = id}
    IN IF hits = {} THEN before
       ELSE {docs[CHOOSE i \in hits : \A j \in hits : j <= i]}

AddDocument(doc, db_ok, vec_ok) ==
    /\ (collection = "deleted" => ~vec_ok)
    /\ UNCHANGED collection
    /\ db' = InsertDocument(db, doc, db_ok)
    /\ vec' = VectorAddDocument(vec, doc, vec_ok)
    /\ last_ok' = IF db_ok THEN [last_ok EXCEPT ![doc.id] = {doc}] ELSE last_ok
    /\ ret' = [op |-> "add_document", doc |-> doc,
               attempts |-> <<"database.insert_document", "vector_store.add_document">>,
               db_ok |-> db_ok, vec_ok |-> vec_ok,
               replaced |-> db_ok /\ \E r \in Range(db) : r.id = doc.id /\ r # doc,
               result |-> AddDocumentResult(db_ok, vec_ok)]
    /\ UNCHANGED <<ChatVars, SearchVars, ApiVars, ToolVars>>

AddDocuments(docs, fails, txn, failed_chunks) ==
    \* a batch that repeats an id is rejected by the collection as a whole
    /\ (HasDuplicateIds(docs) => failed_chunks = {1})
    /\ (collection = "deleted" => failed_chunks = AllChunks(docs))
    /\ (txn = "connect_fail" => fails = {})
    /\ UNCHANGED collection
    /\ db' = InsertDocumentsRows(db, docs, fails, txn)
    /\ vec' = VectorAddDocuments(vec, docs, failed_chunks)
    /\ last_ok' = IF txn = "ok"
                  THEN [id \in DocIds |-> LastInserted(docs, fails, id, last_ok[id])]
                  ELSE last_ok
    /\ LET db_success == InsertDocumentsCount(docs, fails, txn)
           vec_success == IF docs = <<>> THEN 0 ELSE VectorAddCount(docs, failed_chunks, 1)
       IN ret' = [op |-> "add_documents", n |-> Len(docs),
                  db_success |-> db_success, vec_success |-> vec_success,
                  result |-> <<HybridSuccessCount(db_success, vec_success), Len(docs)>>]
    /\ UNCHANGED <<ChatVars, SearchVars, ApiVars, ToolVars>>

RECURSIVE AllKnownDocs(_, _)
\* sync_stores, lines 215-218
AllKnownDocs(rows, t) ==
    IF t > Len(KnownTypes) THEN <<>>
    ELSE GetDocumentsByType(rows, KnownTypes[t]) \o AllKnownDocs(rows, t + 1)

\* sync_stores, lines 210-235.  clear is how clear_all goes: on a handle to a
\* deleted collection its delete_collection raises, there being no collection
\* of that name.
SyncStores(clear, failed_chunks) ==
    LET all_docs == AllKnownDocs(db, 1)
    IN /\ IF all_docs = <<>>
          THEN \* lines 220-221: returns before the vector store is touched
               /\ failed_chunks = {} /\ clear = "ok"
               /\ vec' = vec
               /\ UNCHANGED collection
               /\ ret' = [op |-> "sync_stores", status |-> "no_documents",
                          synced_count |-> 0, total_count |-> 0, clear_failed |-> FALSE]
          ELSE LET success_count == VectorAddCount(all_docs, failed_chunks, 1)
               IN /\ (collection = "deleted" => clear = "delete_raises")
                  /\ (CollectionAfterClear(collection, clear) = "deleted"
                         => failed_chunks = AllChunks(all_docs))
                  /\ vec' = VectorAddDocuments(VectorClearAll(vec, clear), all_docs,
                                                failed_chunks)
                  /\ collection' = CollectionAfterClear(collection, clear)
                  /\ ret' = [op |-> "sync_stores",
                             status |-> IF success_count = Len(all_docs)
                                        THEN "completed" ELSE "partial",
                             synced_count |-> success_count,
                             total_count |-> Len(all_docs),
                             clear_failed |-> ~ClearAllResult(clear)]
       /\ UNCHANGED <<db, last_ok>>
       /\ UNCHANGED <<ChatVars, SearchVars, ApiVars, ToolVars>>

\* The 'total_documents' entry of DocumentDatabase.get_stats(): the row count,
\* or no entry when the call failed and returned {} (database.py 200-235).
DatabaseStats(rows, fails) == IF fails THEN None ELSE Some(Len(rows))

\* The 'total_documents' entry of VectorStore.get_stats(): collection.count(),
\* or no entry when the call failed and returned {} (vector_store.py 198-226).
VectorStats(coll, fails) == IF fails THEN None ELSE Some(Cardinality(coll))

\* stats.get('total_documents', default)
TotalDocuments(stats, default) == IF stats = None THEN default ELSE stats.value

\* stats.get('total_documents') == stats.get('total_documents'): the values
\* compared may both be None.
InSync(db_stats, vector_stats) == db_stats = vector_stats

\* HybridDocumentStore.get_stats, hybrid_store.py lines 177-191.
GetStats(db_fails, vec_fails) ==
    LET db_stats == DatabaseStats(db, db_fails)
        vector_stats == VectorStats(vec, vec_fails)
    IN /\ (collection = "deleted" => vec_fails)
       /\ ret' = [op |-> "get_stats", db_stats |-> db_stats, vector_stats |-> vector_stats,
                  sync_status |-> [db_docs     |-> TotalDocuments(db_stats, 0),
                                   vector_docs |-> TotalDocuments(vector_stats, 0),
                                   in_sync     |-> InSync(db_stats, vector_stats)]]
       /\ UNCHANGED <<db, vec, collection, last_ok>>
       /\ UNCHANGED <<ChatVars, SearchVars, ApiVars, ToolVars>>

\* ------------------------------------------------------------------------
\* Population of one document type  (storage/populate.py)
\* ------------------------------------------------------------------------

\* The keys of type_files in populate_specific_type: the names the CLI accepts.
PopulateTypes == {"gods", "abilities", "items", "patches", "god_changes"}

\* The Document.type the processors give the documents of each processed
\* file (gods.py:90, gods.py:161, items.py:112, patches.py:68, patches.py:124).
ProcessedType(t) ==
    CASE t = "gods"        -> "god"
      [] t = "abilities"   -> "ability"
      [] t = "items"       -> "item"
      [] t = "patches"     -> "patch"
      [] OTHER             -> "god_change"

\* What a processed file of the CLI type t can hold: Documents of its type.
ProcessedFiles(t) ==
    SeqsUpTo({d \in StoreDocs : d.type = ProcessedType(t)}, MaxBatch)

\* delete_documents_by_type: DELETE FROM documents WHERE type = ?
DeleteDocumentsByType(rows, doc_type) == SelectSeq(rows, LAMBDA r : r.type # doc_type)

\* VectorStore.delete_by_type: the entries whose metadata type equals doc_type go.
VectorDeleteByType(coll, doc_type) == {d \in coll : d.type # doc_type}

\* populate_specific_type(dir, t): delete_by_type is called with the CLI name
\* t itself (line 141), then the Documents of t's file, if any, are added.
PopulateSpecificType(t, file_docs, fails, txn, failed_chunks) ==
    LET db_cleared == DeleteDocumentsByType(db, t)
        vec_cleared == VectorDeleteByType(vec, t)
        adding == file_docs # <<>>
        kept == [id \in DocIds |-> IF id \in IdsOf(Range(db_cleared)) THEN last_ok[id] ELSE {}]
    IN /\ (HasDuplicateIds(file_docs) => failed_chunks = {1})
       /\ (collection = "deleted" /\ adding => failed_chunks = AllChunks(file_docs))
       /\ (txn = "connect_fail" => fails = {})
       /\ (~adding => txn = "ok" /\ failed_chunks = {})
       /\ UNCHANGED collection
       /\ db' = IF adding THEN InsertDocumentsRows(db_cleared, file_docs, fails, txn)
                ELSE db_cleared
       /\ vec' = IF adding THEN VectorAddDocuments(vec_cleared, file_docs, failed_chunks)
                 ELSE vec_cleared
       /\ last_ok' = IF adding /\ txn = "ok"
                     THEN [id \in DocIds |-> LastInserted(file_docs, fails, id, kept[id])]
                     ELSE kept
       /\ ret' = [op |-> "populate_specific_type", type |-> t, file_docs |-> file_docs,
                  db_deleted |-> Len(db) - Len(db_cleared),
                  vec_deleted |-> Cardinality(vec) - Cardinality(vec_cleared),
                  faults |-> fails # {} \/ txn # "ok" \/ failed_chunks # {}]
       /\ UNCHANGED <<ChatVars, SearchVars, ApiVars, ToolVars>>

\* ------------------------------------------------------------------------
\* Clearing and deleting  (storage/hybrid_store.py)
\* ------------------------------------------------------------------------

\* The doc_type values delete_by_type is called with: the types of the
\* model's Documents, a type no Document has, and a name the population CLI
\* passes.
DeleteTypes == {"god", "item", "patch", "gods"}

\* HybridDocumentStore.clear_all, lines 201-208: DocumentDatabase.clear_all
\* (DELETE FROM documents, database.py 264-275; False and no change when it
\* raises) and then VectorStore.clear_all, whatever the first one returned.
ClearAll(db_ok, clear) ==
    /\ (collection = "deleted" => clear = "delete_raises")
    /\ db' = IF db_ok THEN <<>> ELSE db
    /\ vec' = VectorClearAll(vec, clear)
    /\ collection' = CollectionAfterClear(collection, clear)
    /\ last_ok' = IF db_ok THEN [id \in DocIds |-> {}] ELSE last_ok
    /\ ret' = [op |-> "clear_all",
               db_cleared |-> db_ok, vector_cleared |-> ClearAllResult(clear),
               result |-> db_ok /\ ClearAllResult(clear)]
    /\ UNCHANGED <<ChatVars, SearchVars, ApiVars, ToolVars>>

\* HybridDocumentStore.delete_by_type, lines 193-199: each store deletes the
\* entries of the type and returns their number, or 0 with nothing deleted
\* when its call raised.
DeleteByType(doc_type, db_ok, vec_ok) ==
    LET db_after == IF db_ok THEN DeleteDocumentsByType(db, doc_type) ELSE db
        vec_after == IF vec_ok THEN VectorDeleteByType(vec, doc_type) ELSE vec
    IN /\ (collection = "deleted" => ~vec_ok)
       /\ UNCHANGED collection
       /\ db' = db_after
       /\ vec' = vec_after
       /\ last_ok' = [id \in DocIds |->
                         IF id \in IdsOf(Range(db_after)) THEN last_ok[id] ELSE {}]
       /\ ret' = [op |-> "delete_by_type", type |-> doc_type,
                  result |-> <<Len(db) - Len(db_after),
                               Cardinality(vec) - Cardinality(vec_after)>>]
       /\ UNCHANGED <<ChatVars, SearchVars, ApiVars, ToolVars>>

\* ------------------------------------------------------------------------
\* The population CLI  (storage/populate.py, main)
\* ------------------------------------------------------------------------

\* What load_documents_from_json returns for all_documents.json: the file's
\* documents, [] for an empty list or a file whose load fails (lines 40-63).
CombinedLoads == SeqsUpTo(StoreDocs, MaxBatch)

\* What it returns for one *_processed.json file.
FileLoads == {<<>>} \cup {<<d>> : d \in StoreDocs}

\* The *_processed.json files of a directory without all_documents.json:
\* none, one or two of them.
FileLists == {<<>>} \cup {<<f>> : f \in FileLoads} \cup {<<f, g>> : f, g \in FileLoads}

\* The file of the CLI type t as populate_specific_type finds it: absent, or
\* present with its documents.
TypeFiles(t) == {<<>>} \cup {<<f>> : f \in ProcessedFiles(t)}

\* populate_from_processed_data, lines 65-114: the documents handed to
\* add_documents; combined is None when all_documents.json does not exist.
LoadedDocuments(combined, files) ==
    IF combined # None THEN combined.value ELSE Concat(files)

\* results['files_processed'], lines 87 and 106.
FilesProcessed(combined, files) ==
    IF combined # None THEN (IF combined.value # <<>> THEN 1 ELSE 0) ELSE Len(files)

\* Line 234: successful / total * 100; the division raises for total = 0.
SuccessRate(successful, total) ==
    IF total = 0 THEN None ELSE Some((successful * 100) \div total)

\* verify_population, lines 164-187, on stores whose stats calls succeed.
VerifyPopulation(rows, coll) ==
    LET total == Len(rows)
        in_sync == InSync(DatabaseStats(rows, FALSE), VectorStats(coll, FALSE))
    IN [database_healthy     |-> total > 0,
        vector_store_healthy |-> Cardinality(coll) > 0,
        stores_in_sync       |-> in_sync,
        total_documents      |-> total,
        recommendations      |->
            (IF ~in_sync THEN <<"Run sync_stores">> ELSE <<>>)
            \o (IF total = 0 THEN <<"No documents found">> ELSE <<>>)
            \o (IF total < 500 THEN <<"Document count seems low">> ELSE <<>>)]

\* main, lines 189-268, on a processed-data directory that exists: clear both
\* stores under --clear-all, populate (one type under --type), print the
\* results and the final stats, verify under --verify.  The run constructs
\* its own stores, and VectorStore.__init__ gets or creates the collection
\* (vector_store.py lines 47-50); no call on the stores fails in the run.
PopulateMain(clear_all, type_arg, verify, combined, files) ==
    LET typed == type_arg # None
        db0 == IF clear_all THEN <<>> ELSE db
        vec0 == IF clear_all THEN VectorClearAll(vec, "ok") ELSE vec
        \* populate_specific_type, line 141
        db1 == IF typed THEN DeleteDocumentsByType(db0, type_arg.value) ELSE db0
        vec1 == IF typed THEN VectorDeleteByType(vec0, type_arg.value) ELSE vec0
        kept == [id \in DocIds |-> IF id \in IdsOf(Range(db1)) THEN last_ok[id] ELSE {}]
        documents == IF typed THEN Concat(files) ELSE LoadedDocuments(combined, files)
        txn == "ok"
        failed_chunks == IF HasDuplicateIds(documents) THEN {1} ELSE {}
        db_success == InsertDocumentsCount(documents, {}, txn)
        vec_success == IF documents = <<>> THEN 0
                       ELSE VectorAddCount(documents, failed_chunks, 1)
        total == Len(documents)
        successful == IF documents = <<>> THEN 0
                      ELSE HybridSuccessCount(db_success, vec_success)
        rate == SuccessRate(successful, total)
        db2 == IF documents = <<>> THEN db1 ELSE InsertDocumentsRows(db1, documents, {}, txn)
        vec2 == IF documents = <<>> THEN vec1
                ELSE VectorAddDocuments(vec1, documents, failed_chunks)
    IN /\ (combined # None => files = <<>>)
       /\ (typed => combined = None /\ files \in TypeFiles(type_arg.value))
       /\ collection' = "live"
       /\ db' = db2
       /\ vec' = vec2
       /\ last_ok' = IF documents # <<>>
                     THEN [id \in DocIds |-> LastInserted(documents, {}, id, kept[id])]
                     ELSE kept
       /\ ret' = [op |-> "populate_main",
                  clear_all |-> clear_all, type |-> type_arg,
                  loaded |-> Len(documents),
                  results |-> [files_processed      |-> IF typed THEN Len(files)
                                                        ELSE FilesProcessed(combined, files),
                               total_documents      |-> total,
                               successful_documents |-> successful],
                  printed |-> <<"Files processed", "Total documents", "Successfully stored">>
                              \o (IF rate = None THEN <<>>
                                  ELSE <<"Success rate", "Final storage stats">>)
                              \o (IF rate # None /\ verify
                                  THEN <<"Verification results">> ELSE <<>>),
                  verification |-> IF rate # None /\ verify
                                   THEN Some(VerifyPopulation(db2, vec2)) ELSE None,
                  outcome |-> IF rate = None THEN "ZeroDivisionError" ELSE "completed"]
       /\ UNCHANGED <<ChatVars, SearchVars, ApiVars, ToolVars>>

InitStore ==
    /\ StoreIdle
    /\ ChatIdle /\ SearchIdle /\ ApiIdle /\ ToolsIdle

NextStore ==
    \/ \E doc \in StoreDocs, db_ok \in BOOLEAN, vec_ok \in BOOLEAN :
            AddDocument(doc, db_ok, vec_ok)
    \/ \E docs \in SeqsUpTo(StoreDocs, MaxBatch) :
         \E fails \in SUBSET (1..Len(docs)), txn \in TxnOutcomes,
            failed_chunks \in SUBSET (1..NumChunks(Len(docs))) :
                AddDocuments(docs, fails, txn, failed_chunks)
    \/ \E clear \in ClearOutcomes, failed_chunks \in SUBSET {1} :
            SyncStores(clear, failed_chunks)
    \/ \E t \in PopulateTypes :
         \E file_docs \in ProcessedFiles(t) :
            \E fails \in SUBSET (1..Len(file_docs)), txn \in TxnOutcomes,
               failed_chunks \in SUBSET (1..NumChunks(Len(file_docs))) :
                  PopulateSpecificType(t, file_docs, fails, txn, failed_chunks)
    \/ \E db_fails \in BOOLEAN, vec_fails \in BOOLEAN : GetStats(db_fails, vec_fails)
    \/ \E db_ok \in BOOLEAN, clear \in ClearOutcomes : ClearAll(db_ok, clear)
    \/ \E doc_type \in DeleteTypes, db_ok \in BOOLEAN, vec_ok \in BOOLEAN :
            DeleteByType(doc_type, db_ok, vec_ok)

SpecStore == InitStore /\ [][NextStore]_vars

\* Runs of the population CLI against stores that single writes and
\* clear_all calls of other processes have left in any state.
InitCli == InitStore

NextCli ==
    \/ \E doc \in StoreDocs, db_ok \in BOOLEAN, vec_ok \in BOOLEAN :
            AddDocument(doc, db_ok, vec_ok)
    \/ \E db_ok \in BOOLEAN, clear \in ClearOutcomes : ClearAll(db_ok, clear)
    \/ \E clear_all \in BOOLEAN, verify \in BOOLEAN, docs \in CombinedLoads :
            PopulateMain(clear_all, None, verify, Some(docs), <<>>)
    \/ \E clear_all \in BOOLEAN, verify \in BOOLEAN,
          files \in FileLists :
            PopulateMain(clear_all, None, verify, None, files)
    \/ \E clear_all \in BOOLEAN, verify \in BOOLEAN, t \in PopulateTypes :
         \E files \in TypeFiles(t) :
            PopulateMain(clear_all, Some(t), verify, None, files)

SpecCli == InitCli /\ [][NextCli]_vars

\* ------------------------------------------------------------------------
\* Search  (database.search_documents, VectorStore.search / hybrid_search,
\*          HybridDocumentStore.search)
\* ------------------------------------------------------------------------

\* Largest n_results a search is called with.
MaxN == 3

\* Names and queries are sequences of words.
DocName(id) ==
    CASE id = "d1" -> <<"Zeus">>
      [] id = "d2" -> <<"Zeus", "Staff">>
      [] OTHER     -> <<"Thor">>

SearchDocs == {Document(id, 1) : id \in DocIds}

Queries == {<<>>, <<"zeus">>, <<"Thor">>, <<"god">>, <<"item">>}

DocTypeFilters == {"none", "god", "item"}

\* Cosine distances the collection reports, in thousandths.
Distances == {0, 200, 1500}

\* str.lower, word by word.
Lower(w) ==
    CASE w = "Zeus"  -> "zeus"
      [] w = "Staff" -> "staff"
      [] w = "Thor"  -> "thor"
      [] OTHER       -> w

LowerSeq(ws) == [i \in 1..Len(ws) |-> Lower(ws[i])]

\* needle in haystack, for strings
Contains(haystack, needle) ==
    \E i \in 0..(Len(haystack) - Len(needle)) :
        SubSeq(haystack, i + 1, i + Len(needle)) = needle

\* name LIKE '%q%' (case-insensitive), applied only when q is non-empty
NameLike(name, q) == q = <<>> \/ Contains(LowerSeq(name), LowerSeq(q))

Take(seq, n) == SubSeq(seq, 1, Min(n, Len(seq)))

\* search_documents with doc_type, name_contains and limit: "if limit:" adds
\* the LIMIT clause only for a non-zero limit.  A raised exception gives [].
SearchDocuments(rows, doc_type, name_contains, limit, fails) ==
    IF fails THEN <<>>
    ELSE LET hits == SelectSeq(rows, LAMBDA r :
                        /\ (doc_type # "none" => r.type = doc_type)
                        /\ NameLike(DocName(r.id), name_contains))
         IN IF limit # 0 THEN Take(hits, limit) ELSE hits

Result(id, similarity, search_type) ==
    [id |-> id, type |-> DocType(id), similarity |-> similarity, search_type |-> search_type]

\* _structured_search
StructuredSearch(rows, query, n_results, doc_type, fails) ==
    LET documents == SearchDocuments(rows, doc_type, query, n_results, fails)
    IN [i \in 1..Len(documents) |-> Result(documents[i].id, 1000, "structured")]

\* What collection.query can answer for a collection: its entries, each
\* once, nearest first.
Rankings(coll) ==
    {r \in [1..Cardinality(coll) -> IdsOf(coll) \X Distances] :
        /\ \A i, j \in 1..Cardinality(coll) : i < j =>
              /\ r[i][1] # r[j][1]
              /\ r[i][2] <= r[j][2]}

\* VectorStore.search: the n_results nearest entries passing the where clause,
\* similarity = 1 - distance.  A raised exception gives [].
VectorSearch(ranked, n_results, doc_type, fails) ==
    IF fails THEN <<>>
    ELSE LET hits == Take(SelectSeq(ranked, LAMBDA e :
                              doc_type # "none" => DocType(e[1]) = doc_type),
                          n_results)
         IN [i \in 1..Len(hits) |-> Result(hits[i][1], 1000 - hits[i][2], "none")]

GodKeywords == {"god", "character", "hero"}

ItemKeywords == {"item", "equipment", "build"}

AbilityKeywords == {"ability", "skill", "spell"}

HasKeyword(query, keywords) == \E i \in 1..Len(query) : Lower(query[i]) \in keywords

\* min(1.0, base_score * factor), factor in tenths
Boost(base_score, factor) == Min(1000, (base_score * factor) \div 10)

\* The scoring of VectorStore.hybrid_search for one result.
AdjustedSimilarity(query, r) ==
    LET base_score == r.similarity
        named == IF Contains(LowerSeq(DocName(r.id)), LowerSeq(query))
                 THEN Boost(base_score, 12) ELSE base_score
    IN IF HasKeyword(query, GodKeywords)
       THEN (IF r.type = "god" THEN Boost(base_score, 11) ELSE named)
       ELSE IF HasKeyword(query, ItemKeywords)
       THEN (IF r.type = "item" THEN Boost(base_score, 11) ELSE named)
       ELSE IF HasKeyword(query, AbilityKeywords)
       THEN (IF r.type = "ability" THEN Boost(base_score, 11) ELSE named)
       ELSE named

KeyLess(x, y) == x[1] < y[1] \/ (x[1] = y[1] /\ x[2] < y[2])

\* list.sort: ascending by key, equal keys keep their order.
StableSort(seq, keys) ==
    LET n == Len(seq)
        pos(i) == 1 + Cardinality({j \in 1..n :
                        KeyLess(keys[j], keys[i]) \/ (keys[j] = keys[i] /\ j < i)})
    IN [p \in 1..n |-> seq[CHOOSE i \in 1..n : pos(i) = p]]

\* VectorStore.hybrid_search: search at double width without a type filter,
\* rescore, sort by similarity descending, keep n_results.
VectorHybridSearch(ranked, query, n_results, fails) ==
    LET semantic_results == VectorSearch(ranked, n_results * 2, "none", fails)
        scored == [i \in 1..Len(semantic_results) |->
                      [semantic_results[i] EXCEPT
                          !.similarity = AdjustedSimilarity(query, semantic_results[i])]]
    IN Take(StableSort(scored, [i \in 1..Len(scored) |-> <<0, 0 - scored[i].similarity>>]),
            n_results)

RECURSIVE MergeIntoNoDedup(_, _, _)
MergeIntoNoDedup(merged, results, tag) ==
    IF results = <<>> THEN merged
    ELSE MergeIntoNoDedup(Append(merged, [Head(results) EXCEPT !.search_type = tag]),
                          Tail(results), tag)

RECURSIVE MergeInto(_, _, _)
\* One merge loop of _hybrid_search: results whose id has not been seen are
\* tagged and appended.
MergeInto(merged, results, tag) ==
    IF results = <<>> THEN merged
    ELSE MergeInto(IF Head(results).id \in IdsOf(Range(merged)) THEN merged
                   ELSE Append(merged, [Head(results) EXCEPT !.search_type = tag]),
                   Tail(results), tag)

\* sort key of _hybrid_search
MergeKey(r) == <<IF r.search_type = "structured" THEN 0 ELSE 1, 0 - r.similarity>>

\* _hybrid_search, after the two lookups
MergeResults(structured_results, semantic_results, n_results) ==
    LET merged == MergeInto(MergeInto(<<>>, structured_results, "structured"),
                            semantic_results, "semantic")
    IN Take(StableSort(merged, [i \in 1..Len(merged) |-> MergeKey(merged[i])]), n_results)

SearchModes == {"semantic", "structured", "hybrid"}

\* HybridDocumentStore.search with metadata_filters=None.  ranked is the collection's answer for the query (<<>> when the
\* mode does not ask it); vec_fails and db_fails say which lookup raises.
Search(mode, query, n_results, doc_type, ranked, vec_fails, db_fails) ==
    /\ (mode = "semantic" => ~db_fails)
    /\ (mode = "structured" => ~vec_fails /\ ranked = <<>>)
    /\ LET semantic_results ==
               IF mode = "hybrid"
               THEN VectorHybridSearch(ranked, query, n_results, vec_fails)
               ELSE <<>>
           structured_results ==
               IF mode = "hybrid"
               THEN StructuredSearch(db, query, n_results \div 2, doc_type, db_fails)
               ELSE <<>>
       IN search' = [mode |-> mode, query |-> query, n_results |-> n_results,
                     doc_type |-> doc_type,
                     semantic_results |-> semantic_results,
                     structured_results |-> structured_results,
                     results |->
                        CASE mode = "semantic" ->
                                VectorSearch(ranked, n_results, doc_type, vec_fails)
                          [] mode = "structured" ->
                                StructuredSearch(db, query, n_results, doc_type, db_fails)
                          [] OTHER ->
                                MergeResults(structured_results, semantic_results, n_results)]
    /\ UNCHANGED <<ChatVars, StoreVars, ApiVars, ToolVars>>

\* Any contents the two stores can have: rows with distinct ids in insertion
\* order, and a collection that need not agree with them.
InitSearch ==
    /\ db \in {r \in SeqsUpTo(SearchDocs, Cardinality(DocIds)) :
                  \A i, j \in 1..Len(r) : r[i].id = r[j].id => i = j}
    /\ vec \in SUBSET SearchDocs
    /\ collection = "live"
    /\ last_ok = [id \in DocIds |-> RowsWithId(db, id)]
    /\ ret = NoRet
    /\ SearchIdle
    /\ ChatIdle /\ ApiIdle /\ ToolsIdle

\* One search per run, from any contents of the stores.
NextSearch ==
    /\ search = NoSearch
    /\ \/ \E ranked \in Rankings(vec) :
            \E mode \in SearchModes \ {"structured"}, query \in Queries,
               n_results \in 1..MaxN, doc_type \in DocTypeFilters,
               vec_fails \in BOOLEAN, db_fails \in BOOLEAN :
                  Search(mode, query, n_results, doc_type, ranked, vec_fails, db_fails)
       \/ \E query \in Queries, n_results \in 1..MaxN, doc_type \in DocTypeFilters,
             db_fails \in BOOLEAN :
                Search("structured", query, n_results, doc_type, <<>>, FALSE, db_fails)

SpecSearch == InitSearch /\ [][NextSearch]_vars

\* ------------------------------------------------------------------------
\* HTTP API  (api/app.py)
\* ------------------------------------------------------------------------

\* Number of requests a run sends.
MaxReqs == 3

Endpoints == {"health", "stats", "chat"}

\* The temperature / max_tokens fields of a ChatRequest that are not None,
\* within the ranges models.py validates (temperature in tenths).
Overrides ==
    UNION {[keys -> {0, 10, 50}] : keys \in SUBSET {"temperature", "max_tokens"}}

ValidOverrides ==
    {o \in Overrides :
        /\ "temperature" \in DOMAIN o => o["temperature"] \in {0, 10}
        /\ "max_tokens" \in DOMAIN o => o["max_tokens"] = 50}

\* What initialize_chatbot meets: everything in place, or one of the ways it raises.
StartupOutcomes ==
    {"ok", "no_api_key", "no_storage_dir", "store_ctor_error", "llm_ctor_error"}

\* The provider object initialize_chatbot constructs.
ApiProvider == "openai"

\* initialize_chatbot, lines 92-95
StartupConfig == [temperature |-> 7, max_tokens |-> 512]

LifespanInitializedAlways(init_ok) == TRUE

\* lifespan, lines 38-45: initialized is set from whether initialize_chatbot raised.
LifespanInitialized(init_ok) == init_ok

HandlerAwaitsBeforeGenerate == TRUE

\* Whether the body of the /chat handler gives up the event loop between its
\* config write (line 194) and chatbot.chat (line 225): it contains no await.
HandlerYields == FALSE

\* get_chatbot, lines 112-119
ChatbotAvailable(state) == state.initialized /\ state.chatbot # "none"

\* health_check, line 150
HealthStatus(state) == IF state.initialized THEN "healthy" ELSE "initializing"

InFlight == {r \in ReqIds : reqs[r].pc # "idle"}

\* The request leaves its slot and its answer is recorded.
Answer(r, status, body, cfg_at_call, generated) ==
    /\ handled' = Append(handled,
                         [arrival |-> reqs[r].arrival, endpoint |-> reqs[r].endpoint,
                          overrides |-> reqs[r].overrides, status |-> status, body |-> body,
                          cfg_at_call |-> cfg_at_call, generated |-> generated,
                          concurrent |-> {reqs[q].arrival : q \in InFlight \ {r}}])
    /\ reqs' = [reqs EXCEPT ![r] = NoReq]

\* lifespan startup: one call of initialize_chatbot, whatever its outcome.
Startup(outcome) ==
    /\ phase = "starting"
    /\ init_attempts' = init_attempts + 1
    /\ llm_config' = IF outcome = "ok" THEN UpdateConfig(DefaultConfig, StartupConfig)
                     ELSE llm_config
    /\ app_state' = [initialized |-> LifespanInitialized(outcome = "ok"),
                     chatbot |-> IF outcome = "ok" THEN "chatbot" ELSE app_state.chatbot]
    /\ phase' = IF outcome = "ok" THEN "ready" ELSE "failed"
    /\ UNCHANGED <<reqs, arrivals, running, handled, chatbot_reached>>
    /\ UNCHANGED <<ChatVars, StoreVars, SearchVars, ToolVars>>

\* A request arrives on the lowest free connection slot.
Receive(r, endpoint, overrides) ==
    /\ phase # "starting"
    /\ running = "none"
    /\ arrivals < MaxReqs
    /\ reqs[r].pc = "idle"
    /\ \A q \in ReqIds : reqs[q].pc = "idle" => (r = "A" \/ q # "A")
    /\ (endpoint # "chat" => overrides = <<>>)
    /\ arrivals' = arrivals + 1
    /\ reqs' = [reqs EXCEPT ![r] = [pc |-> "accepted", endpoint |-> endpoint,
                                    overrides |-> overrides, arrival |-> arrivals + 1]]
    /\ UNCHANGED <<phase, app_state, init_attempts, llm_config, running, handled,
                   chatbot_reached>>
    /\ UNCHANGED <<ChatVars, StoreVars, SearchVars, ToolVars>>

\* /health: no dependency on the chatbot.
Health(r) ==
    /\ running = "none"
    /\ reqs[r].pc = "accepted"
    /\ reqs[r].endpoint = "health"
    /\ Answer(r, 200, HealthStatus(app_state), <<>>, FALSE)
    /\ UNCHANGED <<phase, app_state, init_attempts, llm_config, arrivals, running,
                   chatbot_reached>>
    /\ UNCHANGED <<ChatVars, StoreVars, SearchVars, ToolVars>>

\* Depends(get_chatbot) of /stats and /chat: 503, or the handler gets the chatbot.
Resolve(r) ==
    /\ running = "none"
    /\ reqs[r].pc = "accepted"
    /\ reqs[r].endpoint \in {"stats", "chat"}
    /\ IF ChatbotAvailable(app_state)
       THEN /\ reqs' = [reqs EXCEPT ![r].pc = "ready"]
            /\ chatbot_reached' = chatbot_reached + 1
            /\ UNCHANGED handled
       ELSE /\ Answer(r, 503, "Chatbot not initialized. Check service health.", <<>>, FALSE)
            /\ UNCHANGED chatbot_reached
    /\ UNCHANGED <<phase, app_state, init_attempts, llm_config, arrivals, running>>
    /\ UNCHANGED <<ChatVars, StoreVars, SearchVars, ToolVars>>

\* get_stats: 200, or 500 when reading the stores' statistics raises.
Stats(r, stats_fail) ==
    /\ running = "none"
    /\ reqs[r].pc = "ready"
    /\ reqs[r].endpoint = "stats"
    /\ Answer(r, IF stats_fail THEN 500 ELSE 200, "stats", <<>>, FALSE)
    /\ UNCHANGED <<phase, app_state, init_attempts, llm_config, arrivals, running,
                   chatbot_reached>>
    /\ UNCHANGED <<ChatVars, StoreVars, SearchVars, ToolVars>>

\* chat, lines 187-194: the overrides, if any, are written to the provider's config.
ChatWriteConfig(r) ==
    /\ running = "none"
    /\ reqs[r].pc = "ready"
    /\ reqs[r].endpoint = "chat"
    /\ llm_config' = IF reqs[r].overrides # <<>>
                     THEN UpdateConfig(llm_config, reqs[r].overrides)
                     ELSE llm_config
    /\ reqs' = [reqs EXCEPT ![r].pc = "written"]
    /\ running' = IF HandlerYields THEN "none" ELSE r
    /\ UNCHANGED <<phase, app_state, init_attempts, arrivals, handled, chatbot_reached>>
    /\ UNCHANGED <<ChatVars, StoreVars, SearchVars, ToolVars>>

\* chat, lines 225-261: chatbot.chat reaches self.llm.generate (chatbot.py:90)
\* under the config then in force.  The provider the API constructs has no
\* generate, so the call raises and the handler answers 500; a provider that
\* has one would be called with that config and the handler would answer 200.
ChatGenerate(r) ==
    /\ running \in {"none", r}
    /\ reqs[r].pc = "written"
    /\ LET generated == ProviderHasGenerate(ApiProvider)
       IN Answer(r, IF generated THEN 200 ELSE 500,
                 IF generated THEN "response" ELSE "Chat processing failed",
                 llm_config, generated)
    /\ running' = "none"
    /\ UNCHANGED <<phase, app_state, init_attempts, llm_config, arrivals, chatbot_reached>>
    /\ UNCHANGED <<ChatVars, StoreVars, SearchVars, ToolVars>>

InitApi ==
    /\ ApiIdle
    /\ ChatIdle /\ StoreIdle /\ SearchIdle /\ ToolsIdle

NextApi ==
    \/ \E outcome \in StartupOutcomes : Startup(outcome)
    \/ \E r \in ReqIds, endpoint \in Endpoints, overrides \in ValidOverrides :
          Receive(r, endpoint, overrides)
    \/ \E r \in ReqIds : Health(r)
    \/ \E r \in ReqIds : Resolve(r)
    \/ \E r \in ReqIds, stats_fail \in BOOLEAN : Stats(r, stats_fail)
    \/ \E r \in ReqIds : ChatWriteConfig(r)
    \/ \E r \in ReqIds : ChatGenerate(r)

SpecApi == InitApi /\ [][NextApi]_vars

\* Two overlapping /chat requests with different overrides: the service has
\* started, requests A and B have both arrived, both override the temperature
\* and with different values, and neither has been handled yet.
DifferentOverrides(oa, ob) ==
    /\ "temperature" \in DOMAIN oa \cap DOMAIN ob
    /\ oa["temperature"] # ob["temperature"]

InitRace ==
    /\ phase = "ready"
    /\ app_state = [initialized |-> TRUE, chatbot |-> "chatbot"]
    /\ init_attempts = 1
    /\ llm_config = UpdateConfig(DefaultConfig, StartupConfig)
    /\ \E oa, ob \in ValidOverrides :
          /\ DifferentOverrides(oa, ob)
          /\ reqs = [r \in ReqIds |->
                        [pc |-> "accepted", endpoint |-> "chat",
                         overrides |-> IF r = "A" THEN oa ELSE ob,
                         arrival |-> IF r = "A" THEN 1 ELSE 2]]
    /\ arrivals = Cardinality(ReqIds)
    /\ running = "none"
    /\ handled = <<>>
    /\ chatbot_reached = 0
    /\ ChatIdle /\ StoreIdle /\ SearchIdle /\ ToolsIdle

\* The event loop's ready queue is first in, first out: a handler that gave
\* up the loop is resumed only after the requests that were waiting have had
\* their turn.  A handler that did not give it up (running = r) just goes on.
ResumesNow(r) ==
    \/ running = r
    \/ \A q \in ReqIds \ {r} : reqs[q].pc \notin {"accepted", "ready"}

NextRace ==
    \/ \E r \in ReqIds : Resolve(r)
    \/ \E r \in ReqIds : ChatWriteConfig(r)
    \/ \E r \in ReqIds : ResumesNow(r) /\ ChatGenerate(r)

SpecRace == InitRace /\ [][NextRace]_vars

\* ------------------------------------------------------------------------
\* Scraper fetch with retries  (src/src/smite_chatbot/scraper/base.py)
\* ------------------------------------------------------------------------

\* Largest max_retries argument explored.
MaxRetries == 3

\* DEFAULT_DELAY_SECONDS = 0.7, in tenths of a second.
DefaultDelaySeconds == 7

\* DEFAULT_MAX_RETRIES = 3
DefaultMaxRetries == 3

\* delay_seconds arguments, in tenths of a second.
DelayArgs == {None, Some(0), Some(5)}

RetryArgs == {None} \cup {Some(n) : n \in 0..MaxRetries}

\* What one session.get + raise_for_status can do: return a 2xx response,
\* raise for a non-2xx status, or raise a connection error or timeout.
GetOutcomes == {"ok", "http_error", "connection_error"}

\* line 35
AttemptDelay(delay_seconds) ==
    IF delay_seconds = None THEN DefaultDelaySeconds ELSE delay_seconds.value

\* line 36
Retries(max_retries) ==
    IF max_retries = None THEN DefaultMaxRetries ELSE max_retries.value

SleepsAfterFailureAlways(attempt, retries) == TRUE

\* line 48: a failed attempt is followed by a sleep only if another attempt follows.
SleepsAfterFailure(attempt, retries) == attempt < retries

\* get(url, delay_seconds=..., max_retries=...) is entered: lines 35-38.
StartGet(delay_seconds, max_retries) ==
    /\ fetch = NoFetch
    /\ fetch' = [pc |-> "loop", delay_seconds |-> delay_seconds, max_retries |-> max_retries,
                 attempt |-> 1, gets |-> <<>>, sleeps |-> <<>>, result |-> [kind |-> "none"]]
    /\ UNCHANGED <<ChatVars, StoreVars, SearchVars, ApiVars, provider, proc>>

\* One iteration of the for loop, lines 39-51: the GET of this attempt has the
\* given outcome.
Attempt(outcome) ==
    LET attempt_delay == AttemptDelay(fetch.delay_seconds)
        retries == Retries(fetch.max_retries)
        slept == Append(fetch.sleeps, [after |-> fetch.attempt, secs |-> attempt_delay])
        gets == Append(fetch.gets, outcome)
    IN /\ fetch.pc = "loop"
       /\ fetch.attempt <= retries
       /\ fetch' =
            IF outcome = "ok"
            THEN \* lines 43-45
                 [fetch EXCEPT !.pc = "done", !.gets = gets,
                               !.sleeps = IF attempt_delay > 0 THEN slept ELSE @,
                               !.result = [kind |-> "returned", attempt |-> fetch.attempt]]
            ELSE IF SleepsAfterFailure(fetch.attempt, retries)
            THEN \* lines 46-49
                 [fetch EXCEPT !.gets = gets, !.sleeps = slept, !.attempt = @ + 1]
            ELSE \* lines 50-51: the exception of this attempt is re-raised
                 [fetch EXCEPT !.pc = "done", !.gets = gets,
                               !.result = [kind |-> "raised", error |-> outcome,
                                           attempt |-> fetch.attempt]]
       /\ UNCHANGED <<ChatVars, StoreVars, SearchVars, ApiVars, provider, proc>>

\* Lines 52-54: the loop is left without a return or a raise, which happens
\* when range(1, retries + 1) is empty; last_exc is None, so RuntimeError.
LoopExhausted ==
    /\ fetch.pc = "loop"
    /\ fetch.attempt > Retries(fetch.max_retries)
    /\ fetch' = [fetch EXCEPT !.pc = "done",
                              !.result = [kind |-> "raised",
                                          error |-> IF fetch.gets = <<>> THEN "RuntimeError"
                                                    ELSE fetch.gets[Len(fetch.gets)],
                                          attempt |-> 0]]
    /\ UNCHANGED <<ChatVars, StoreVars, SearchVars, ApiVars, provider, proc>>

InitScraper ==
    /\ fetch = NoFetch /\ provider = NoProvider /\ proc = NoProc
    /\ ChatIdle /\ StoreIdle /\ SearchIdle /\ ApiIdle

NextScraper ==
    \/ \E delay_seconds \in DelayArgs, max_retries \in RetryArgs :
            StartGet(delay_seconds, max_retries)
    \/ \E outcome \in GetOutcomes : Attempt(outcome)
    \/ LoopExhausted

\* Every GET has timeout=25 and every sleep is finite, so a started call
\* keeps taking steps.
SpecScraper == InitScraper /\ [][NextScraper]_vars /\ WF_vars(NextScraper)

\* ------------------------------------------------------------------------
\* The OpenAI provider object  (src/src/smite_chatbot/models/openai_chatbot.py)
\* ------------------------------------------------------------------------

ModelNames == {"gpt-4o-mini", "gpt-3.5-turbo"}

\* The api_key argument: None, the empty string, or a key.
ApiKeyArgs == {None, Some(""), Some("arg-key")}

\* os.getenv("OPENAI_API_KEY"): None when unset, else the variable's value.
EnvKeys == {None, Some(""), Some("env-key")}

\* The config argument.
ConfigArgs == {None, Some([max_tokens |-> 512])}

\* Python truthiness of an Optional[str].
Truthy(x) == x # None /\ x.value # ""

\* Python's `a or b`
PyOr(a, b) == IF Truthy(a) THEN a ELSE b

\* set_temperature arguments in tenths: -0.1, 0, 0.5, 2.0, 2.1.
Temperatures == {-1, 0, 5, 20, 21}

\* set_max_tokens arguments.
TokenValues == {-1, 0, 1, 500}

TemperatureValidExclusive(temperature) == 0 < temperature /\ temperature < 20

\* line 91: 0 <= temperature <= 2
TemperatureValid(temperature) == 0 <= temperature /\ temperature <= 20

\* line 97: the values set_max_tokens does not reject
MaxTokensValid(max_tokens) == ~(max_tokens <= 0)

\* OpenAIChatBot(model_name, api_key, config) with the environment holding env:
\* ChatBot.__init__ stores model_name as self.llm (chatbot.py line 16) and the
\* config; lines 25-28 pick the key or raise; lines 30-40 set client,
\* default_config and the merged config.
Construct(model_name, api_key, env, config) ==
    LET key == PyOr(api_key, env)
        args == [model_name |-> model_name, api_key |-> api_key, env |-> env,
                 config |-> config]
        base == [llm |-> model_name,
                 config |-> IF config = None THEN <<>> ELSE config.value,
                 memory_enabled |-> DefaultMemory,
                 conversation_history |-> <<>>,
                 vector_store |-> "None"]
    IN /\ provider = NoProvider
       /\ provider' =
            IF ~Truthy(key)
            THEN [state |-> "raised", error |-> "ValueError", args |-> args,
                  last |-> [op |-> "__init__"]]
            ELSE [state |-> "constructed", args |-> args,
                  attrs |-> [llm |-> base.llm,
                             memory_enabled |-> base.memory_enabled,
                             conversation_history |-> base.conversation_history,
                             vector_store |-> base.vector_store,
                             api_key |-> key.value,
                             client |-> [api_key |-> key.value],
                             default_config |-> DefaultConfig,
                             config |-> UpdateConfig(DefaultConfig, base.config)],
                  last |-> [op |-> "__init__"]]
       /\ UNCHANGED <<ChatVars, StoreVars, SearchVars, ApiVars, fetch, proc>>

\* set_temperature, lines 89-93.
SetTemperature(temperature) ==
    /\ provider.state = "constructed"
    /\ provider' =
         IF TemperatureValid(temperature)
         THEN [provider EXCEPT !.attrs.config = [@ EXCEPT !["temperature"] = temperature],
                               !.last = [op |-> "set_temperature", arg |-> temperature,
                                         outcome |-> "returned",
                                         config_before |-> provider.attrs.config]]
         ELSE [provider EXCEPT !.last = [op |-> "set_temperature", arg |-> temperature,
                                         outcome |-> "ValueError",
                                         config_before |-> provider.attrs.config]]
    /\ UNCHANGED <<ChatVars, StoreVars, SearchVars, ApiVars, fetch, proc>>

\* set_max_tokens, lines 95-99.
SetMaxTokens(max_tokens) ==
    /\ provider.state = "constructed"
    /\ provider' =
         IF MaxTokensValid(max_tokens)
         THEN [provider EXCEPT !.attrs.config = [@ EXCEPT !["max_tokens"] = max_tokens],
                               !.last = [op |-> "set_max_tokens", arg |-> max_tokens,
                                         outcome |-> "returned",
                                         config_before |-> provider.attrs.config]]
         ELSE [provider EXCEPT !.last = [op |-> "set_max_tokens", arg |-> max_tokens,
                                         outcome |-> "ValueError",
                                         config_before |-> provider.attrs.config]]
    /\ UNCHANGED <<ChatVars, StoreVars, SearchVars, ApiVars, fetch, proc>>

InitProvider ==
    /\ fetch = NoFetch /\ provider = NoProvider /\ proc = NoProc
    /\ ChatIdle /\ StoreIdle /\ SearchIdle /\ ApiIdle

NextProvider ==
    \/ \E model_name \in ModelNames, api_key \in ApiKeyArgs, env \in EnvKeys,
          config \in ConfigArgs :
            Construct(model_name, api_key, env, config)
    \/ \E temperature \in Temperatures : SetTemperature(temperature)
    \/ \E max_tokens \in TokenValues : SetMaxTokens(max_tokens)

SpecProvider == InitProvider /\ [][NextProvider]_vars

\* ------------------------------------------------------------------------
\* Processors  (src/src/smite_chatbot/processors/base.py, gods.py, items.py,
\* patches.py).  Texts carry their separators as tokens here: " " is a space
\* and "_" an underscore, every other token is a word or a number.
\* ------------------------------------------------------------------------

\* Longest keyword value generate_document_id is applied to.
MaxValueLen == 2

\* str.lower on one token.
LowerWord(w) ==
    CASE w = "Tier"         -> "tier"
      [] w = "Offensive"    -> "offensive"
      [] w = "Defensive"    -> "defensive"
      [] w = "Intelligence" -> "intelligence"
      [] w = "Strength"     -> "strength"
      [] w = "Open"         -> "open"
      [] w = "Beta"         -> "beta"
      [] w = "Update"       -> "update"
      [] w = "Hotfix"       -> "hotfix"
      [] w = "Buff"         -> "buff"
      [] w = "Nerf"         -> "nerf"
      [] w = "Mage"         -> "mage"
      [] w = "Bolt"         -> "bolt"
      [] w = "Chain"        -> "chain"
      [] w = "Items"        -> "items"
      [] w = "Gods"         -> "gods"
      [] w = "Smite"        -> "smite"
      [] w = "Game"         -> "game"
      [] w = "Modes"        -> "modes"
      [] w = "Category:"    -> "category:"
      [] w = "Item"         -> "item"
      [] w = "Type:"        -> "type:"
      [] w = "Total"        -> "total"
      [] w = "Cost:"        -> "cost:"
      [] w = "Stats:"       -> "stats:"
      [] w = "Passive"      -> "passive"
      [] w = "Active"       -> "active"
      [] w = "Effect:"      -> "effect:"
      [] w = "Permanently"  -> "permanently"
      [] w = "Grants"       -> "grants"
      [] w = "Fix"          -> "fix"
      [] w = "Shift"        -> "shift"
      [] w = "Rework"       -> "rework"
      [] w = "Adjustment"   -> "adjustment"
      [] w = "True"         -> "true"
      [] w = "False"        -> "false"
      [] OTHER              -> Lower(w)

LowerText(s) == [i \in 1..Len(s) |-> LowerWord(s[i])]

\* str.replace(' ', '_')
ReplaceSpaces(s) == [i \in 1..Len(s) |-> IF s[i] = " " THEN "_" ELSE s[i]]

\* value.lower().replace(' ', '_')
IdText(s) == ReplaceSpaces(LowerText(s))

\* Truthiness of an Optional text: None and the empty string are falsy.
TruthyText(x) == x # None /\ x.value # <<>>

RECURSIVE KwParts(_)
\* base.py lines 84-86: one part "key_value" per keyword whose value is truthy.
KwParts(kwargs) ==
    IF kwargs = <<>> THEN <<>>
    ELSE LET kw == Head(kwargs)
         IN (IF TruthyText(kw.value)
             THEN << <<kw.key, "_">> \o IdText(kw.value.value) >>
             ELSE <<>>)
            \o KwParts(Tail(kwargs))

RECURSIVE Join(_, _)
\* sep.join(parts)
Join(parts, sep) ==
    IF parts = <<>> THEN <<>>
    ELSE IF Len(parts) = 1 THEN parts[1]
    ELSE parts[1] \o <<sep>> \o Join(Tail(parts), sep)

\* generate_document_id(doc_type, name, **kwargs), base.py lines 81-87.
GenerateDocumentId(doc_type, name, kwargs) ==
    Join(<< <<doc_type>>, IdText(name) >> \o KwParts(kwargs), "_")

IdTokens == {"Zeus", "zeus", " ", "_"}

IdNames == {<<"Thor">>, <<"Zeus", " ", "Staff">>}

\* Values of the disambiguating keyword: None or a text.
KwValues == {None} \cup {Some(v) : v \in SeqsUpTo(IdTokens, MaxValueLen)}

\* A source field of the scraped JSON: absent, empty, blank, or holding text.
FieldArgs == {None, Some(<<>>), Some(<<" ">>), Some(<<"Mage">>), Some(<<" ", "Mage">>)}

\* A field that is absent or holds text.
PlainArgs == {None, Some(<<"Zeus">>)}

\* dict.get(key, '')
Get(field) == IF field = None THEN <<>> ELSE field.value

RECURSIVE LStrip(_)
LStrip(s) == IF s # <<>> /\ Head(s) = " " THEN LStrip(Tail(s)) ELSE s

RECURSIVE RStrip(_)
RStrip(s) == IF s # <<>> /\ s[Len(s)] = " " THEN RStrip(SubSeq(s, 1, Len(s) - 1)) ELSE s

\* str.strip()
Strip(s) == RStrip(LStrip(s))

\* clean_text, base.py lines 90-95, on texts without line breaks.
CleanText(s) == IF s = <<>> THEN <<>> ELSE Strip(s)

\* Metadata values, tagged with their Python type; numbers and booleans are
\* kept as their text.
StrValue(s) == [t |-> "str", v |-> s]

IntText(n) == CASE n = 0 -> "0" [] n = 1 -> "1" [] OTHER -> "2"

IntValue(n) == [t |-> "int", v |-> <<IntText(n)>>]

BoolValue(b) == [t |-> "bool", v |-> <<IF b THEN "True" ELSE "False">>]

ListValue(l) == [t |-> "list", v |-> l]

\* Python truthiness of a metadata value.
TruthyValue(x) ==
    CASE x.t = "str"  -> x.v # <<>>
      [] x.t = "int"  -> x.v # <<"0">>
      [] x.t = "bool" -> x.v = <<"True">>
      [] OTHER        -> x.v # <<>>

\* {k: v for k, v in metadata.items() if v}
FilterTruthy(md) == [k \in {j \in DOMAIN md : TruthyValue(md[j])} |-> md[k]]

\* The dict holding the given (key, value) pairs.
DictOf(pairs) == [k \in {q[1] : q \in pairs} |-> (CHOOSE q \in pairs : q[1] = k)[2]]

\* gods.py lines 75-86: the values are stripped and the falsy ones removed.
GodMetadata(pantheon, roles, title, release_date, voice_actor, ability_count) ==
    FilterTruthy([pantheon     |-> StrValue(Strip(Get(pantheon))),
                  role         |-> StrValue(Strip(Get(roles))),
                  title        |-> StrValue(Strip(Get(title))),
                  release_date |-> StrValue(Strip(Get(release_date))),
                  voice_actor  |-> StrValue(Strip(Get(voice_actor))),
                  ability_count |-> IntValue(ability_count)])

\* gods.py lines 151-157: the dict is stored as built.
AbilityMetadata(god_name, ability_type, description, has_stats, notes) ==
    [god             |-> StrValue(Get(god_name)),
     ability_type    |-> StrValue(Get(ability_type)),
     has_description |-> BoolValue(CleanText(Get(description)) # <<>>),
     has_stats       |-> BoolValue(has_stats),
     has_notes       |-> BoolValue(CleanText(Get(notes)) # <<>>)]

DigitTokens == {"3", "16", "2500"}

\* Tokens that [\d.]+ matches whole.
DottedTokens == DigitTokens \cup {"1.2"}

\* What (\d+) captures at the start of such a token.
LeadingDigits(tok) == IF tok = "1.2" THEN "1" ELSE tok

\* The pairs (needle, token) of lower-case words where the needle is a proper
\* part of the token.
PartOf == {<<"fix", "hotfix">>, <<"cost", "cost:">>, <<"stats", "stats:">>,
           <<"type", "type:">>, <<"effect", "effect:">>, <<"item", "items">>,
           <<"god", "gods">>, <<"mode", "modes">>}

\* needle in token
Within(w, tok) == tok = w \/ <<w, tok>> \in PartOf

\* needle in text, for a needle without separators.
HasWord(s, w) == \E i \in 1..Len(s) : Within(w, s[i])

\* len(token)
CharCount(w) ==
    CASE w \in {" ", "_", "-", "2", "3"}                                   -> 1
      [] w \in {"16"}                                                      -> 2
      [] w \in {"and", "fix", "1.2"}                                       -> 3
      [] w \in {"Zeus", "zeus", "Thor", "thor", "Bolt", "bolt", "Buff", "buff",
                "Nerf", "nerf", "Mage", "mage", "Open", "open", "Beta", "beta",
                "Tier", "tier", "Gods", "gods", "Game", "game", "Item", "item",
                "2500"}                                                    -> 4
      [] w \in {"Staff", "staff", "Chain", "chain", "Items", "items", "wiki/",
                "Smite", "smite", "Modes", "modes", "Total", "total",
                "Type:", "type:", "Cost:", "cost:"}                        -> 5
      [] w \in {"Update", "update", "Hotfix", "hotfix", "Grants", "grants",
                "health", "Stats:", "stats:", "Active", "active"}          -> 6
      [] w \in {"maximum", "Passive", "passive", "Effect:", "effect:"}      -> 7
      [] w \in {"physical", "Strength", "strength"}                        -> 8
      [] w \in {"increases", "Offensive", "offensive", "Defensive",
                "defensive", "Category:", "category:"}                     -> 9
      [] w \in {"protection"}                                              -> 10
      [] w \in {"Permanently", "permanently"}                              -> 11
      [] w \in {"Intelligence", "intelligence"}                            -> 12

RECURSIVE TextLen(_)
\* len(text)
TextLen(s) == IF s = <<>> THEN 0 ELSE CharCount(Head(s)) + TextLen(Tail(s))

\* re.search(r'tier (\d+)', text): the positions where it matches.
TierMatches(text) ==
    {i \in 1..(Len(text) - 2) :
        text[i] = "tier" /\ text[i + 1] = " " /\ text[i + 2] \in DottedTokens}

\* int(text): succeeds on digits, surrounding blanks allowed.
IsInt(text) == Len(Strip(text)) = 1 /\ Strip(text)[1] \in DigitTokens

\* items.py lines 150-194.
ItemMetadata(item_type_field, total_cost, stats_field, passive, active) ==
    LET item_type == Get(item_type_field)
        low == LowerText(item_type)
        first == CHOOSE i \in TierMatches(low) : \A j \in TierMatches(low) : i <= j
        category == IF HasWord(low, "offensive") THEN <<"offensive">>
                    ELSE IF HasWord(low, "defensive") THEN <<"defensive">>
                    ELSE IF HasWord(low, "hybrid") THEN <<"hybrid">>
                    ELSE IF HasWord(low, "starter") THEN <<"starter">>
                    ELSE <<>>
        stats_str == LowerText(Get(stats_field))
    IN DictOf(
         (IF item_type # <<>> THEN {<<"item_type", StrValue(item_type)>>} ELSE {})
         \cup (IF item_type # <<>> /\ HasWord(low, "tier") /\ TierMatches(low) # {}
               THEN {<<"tier", [t |-> "int", v |-> <<LeadingDigits(low[first + 2])>>]>>}
               ELSE {})
         \cup (IF item_type # <<>> /\ category # <<>>
               THEN {<<"category", StrValue(category)>>} ELSE {})
         \cup (IF TruthyText(total_cost) /\ IsInt(total_cost.value)
               THEN {<<"total_cost", [t |-> "int", v |-> Strip(total_cost.value)]>>}
               ELSE {})
         \cup {<<"has_" \o w, BoolValue(TRUE)>> :
                  w \in {x \in {"intelligence", "strength", "lifesteal", "protection"} :
                            HasWord(stats_str, x)}}
         \cup {<<"has_passive", BoolValue(TruthyText(passive))>>,
               <<"has_active", BoolValue(TruthyText(active))>>})

\* The patterns of _extract_patch_number in their order; dotted tells whether
\* the group is ([\d.]+) or (\d+).
PatchPatterns ==
    << [words |-> <<"open", " ", "beta", " ">>, dotted |-> FALSE],
       [words |-> <<"beta", " ">>, dotted |-> FALSE],
       [words |-> <<"update", " ">>, dotted |-> TRUE],
       [words |-> <<"patch", " ">>, dotted |-> TRUE],
       [words |-> <<"version", " ">>, dotted |-> TRUE] >>

PatternMatches(pat, text) ==
    {i \in 1..(Len(text) - Len(pat.words)) :
        /\ SubSeq(text, i, i + Len(pat.words) - 1) = pat.words
        /\ text[i + Len(pat.words)] \in DottedTokens}

\* _extract_patch_number, patches.py lines 130-148: the group of the first
\* pattern that matches title.lower(), else the title itself.
ExtractPatchNumber(title) ==
    LET low == LowerText(title)
        hits == {n \in 1..Len(PatchPatterns) : PatternMatches(PatchPatterns[n], low) # {}}
    IN IF hits = {} THEN title
       ELSE LET n == CHOOSE h \in hits : \A g \in hits : h <= g
                pat == PatchPatterns[n]
                i == CHOOSE h \in PatternMatches(pat, low) :
                        \A g \in PatternMatches(pat, low) : h <= g
                tok == low[i + Len(pat.words)]
            IN <<IF pat.dotted THEN tok ELSE LeadingDigits(tok)>>

\* _extract_change_type, patches.py lines 150-164.
ExtractChangeType(change_title) ==
    LET low == LowerText(change_title)
    IN IF HasWord(low, "buff") THEN <<"Buff">>
       ELSE IF HasWord(low, "nerf") THEN <<"Nerf">>
       ELSE IF HasWord(low, "fix") THEN <<"Fix">>
       ELSE IF HasWord(low, "shift") THEN <<"Shift">>
       ELSE IF HasWord(low, "rework") THEN <<"Rework">>
       ELSE <<"Adjustment">>

\* The names of the changes that have one: [c.get('name', '') ... if c.get('name')]
ChangedNames(god_balance) ==
    LET named == SelectSeq(god_balance, LAMBDA c : TruthyText(c.name))
    IN [i \in 1..Len(named) |-> named[i].name.value]

\* patches.py lines 59-64.
PatchMetadata(title, highlights, god_balance) ==
    [patch_number       |-> StrValue(ExtractPatchNumber(Get(title))),
     gods_changed_count |-> IntValue(Len(god_balance)),
     has_highlights     |-> BoolValue(highlights # <<>>),
     gods_changed       |-> ListValue(ChangedNames(god_balance))]

\* patches.py lines 114-120.
GodChangeMetadata(patch_title, god_name, change_title, change_count) ==
    [god          |-> StrValue(Get(god_name)),
     patch        |-> StrValue(Get(patch_title)),
     patch_number |-> StrValue(ExtractPatchNumber(Get(patch_title))),
     change_type  |-> StrValue(ExtractChangeType(Get(change_title))),
     change_count |-> IntValue(change_count)]

ItemTypeArgs == {None, Some(<<>>), Some(<<"Tier", " ", "3", " ", "Offensive">>),
                 Some(<<"Defensive">>)}

CostArgs == {None, Some(<<>>), Some(<<"2500">>), Some(<<"Mage">>)}

StatsArgs == {None, Some(<<"Intelligence">>), Some(<<"Strength">>)}

PatchTitles == {None, Some(<<>>), Some(<<"Open", " ", "Beta", " ", "16">>),
                Some(<<"Update", " ", "1.2">>), Some(<<"Hotfix">>)}

ChangeTitles == {None, Some(<<"Buff">>), Some(<<"Zeus", " ", "Nerf">>)}

GodBalances == {<<>>, <<[name |-> Some(<<"Zeus">>)]>>, <<[name |-> None]>>}

\* The Document a processor builds; its content is left out.
ProcessedDocument(id, type, name, metadata) ==
    [id |-> id, type |-> type, name |-> name, metadata |-> metadata]

\* generate_document_id applied twice to the same arguments and once with
\* another value of the keyword.
GenerateIds(doc_type, name, key, value, other) ==
    /\ proc = NoProc
    /\ proc' = [op |-> "generate_document_id", doc_type |-> doc_type, name |-> name,
                key |-> key, value |-> value, other |-> other,
                id |-> GenerateDocumentId(doc_type, name,
                                          <<[key |-> key, value |-> value]>>),
                id_again |-> GenerateDocumentId(doc_type, name,
                                                <<[key |-> key, value |-> value]>>),
                id_other |-> GenerateDocumentId(doc_type, name,
                                                <<[key |-> key, value |-> other]>>)]
    /\ UNCHANGED <<ChatVars, StoreVars, SearchVars, ApiVars, fetch, provider>>

\* GodsProcessor._create_god_document, gods.py lines 35-95.
CreateGodDocument(name, pantheon, roles, title, release_date, ability_count) ==
    /\ proc = NoProc
    /\ proc' = [op |-> "_create_god_document",
                doc |-> ProcessedDocument(
                          GenerateDocumentId("god", Get(name), <<>>), "god", Get(name),
                          GodMetadata(pantheon, roles, title, release_date, None,
                                      ability_count))]
    /\ UNCHANGED <<ChatVars, StoreVars, SearchVars, ApiVars, fetch, provider>>

\* GodsProcessor._create_ability_document, gods.py lines 113-165.
CreateAbilityDocument(god_name, ability_name, ability_type, description, has_stats) ==
    /\ proc = NoProc
    /\ proc' = [op |-> "_create_ability_document",
                doc |-> ProcessedDocument(
                          GenerateDocumentId("ability", Get(ability_name),
                                             <<[key |-> "god", value |-> Some(Get(god_name))]>>),
                          "ability", Get(ability_name),
                          AbilityMetadata(god_name, ability_type, description, has_stats,
                                          None))]
    /\ UNCHANGED <<ChatVars, StoreVars, SearchVars, ApiVars, fetch, provider>>

\* ItemsProcessor._create_item_document, items.py lines 70-117.
CreateItemDocument(name, item_type, total_cost, stats_field, passive) ==
    /\ proc = NoProc
    /\ proc' = [op |-> "_create_item_document",
                doc |-> ProcessedDocument(
                          GenerateDocumentId("item", Get(name), <<>>), "item", Get(name),
                          ItemMetadata(item_type, total_cost, stats_field, passive, None))]
    /\ UNCHANGED <<ChatVars, StoreVars, SearchVars, ApiVars, fetch, provider>>

\* PatchProcessor._create_patch_document, patches.py lines 35-74.
CreatePatchDocument(title, has_highlights, god_balance) ==
    /\ proc = NoProc
    /\ proc' = [op |-> "_create_patch_document",
                doc |-> ProcessedDocument(
                          GenerateDocumentId("patch", Get(title), <<>>), "patch", Get(title),
                          PatchMetadata(title,
                                        IF has_highlights THEN <<"Mage">> ELSE <<>>,
                                        god_balance))]
    /\ UNCHANGED <<ChatVars, StoreVars, SearchVars, ApiVars, fetch, provider>>

\* PatchProcessor._create_god_change_document, patches.py lines 91-128.
CreateGodChangeDocument(patch_title, god_name, change_title, change_count) ==
    /\ proc = NoProc
    /\ proc' = [op |-> "_create_god_change_document",
                doc |-> ProcessedDocument(
                          GenerateDocumentId(
                              "god_change", Get(god_name),
                              <<[key |-> "patch",
                                 value |-> Some(ExtractPatchNumber(Get(patch_title)))]>>),
                          "god_change",
                          Get(god_name) \o <<" ", "-", " ">> \o Get(patch_title),
                          GodChangeMetadata(patch_title, god_name, change_title,
                                            change_count))]
    /\ UNCHANGED <<ChatVars, StoreVars, SearchVars, ApiVars, fetch, provider>>

\* Entries per list of a scraped file.
MaxEntries == 2

\* Lists of at most n entries whose names are pairwise different.
DistinctLists(entries, n) ==
    {l \in SeqsUpTo(entries, n) : \A i, j \in 1..Len(l) : l[i].name = l[j].name => i = j}

AbilityData == {[name |-> Some(<<"Bolt">>)], [name |-> Some(<<"Chain">>)]}

\* Entries of gods.json: a god and its abilities.
GodData ==
    {[name |-> Some(<<"Zeus">>), abilities |-> a] : a \in DistinctLists(AbilityData, MaxEntries)}
    \cup {[name |-> Some(<<"Thor">>), abilities |-> <<>>]}

\* Keys of an item's stats dict.
ItemTypeKey == <<"Item", " ", "Type:">>

TotalCostKey == <<"Total", " ", "Cost:">>

StatsKey == <<"Stats:">>

PassiveKey == <<"Passive", " ", "Effect:">>

ActiveKey == <<"Active", " ", "Effect:">>

\* stats.get(key)
StatsGet(stats, key) == IF key \in DOMAIN stats THEN Some(stats[key]) ELSE None

LongDescription ==
    <<"Permanently", " ", "increases", " ", "physical", " ", "protection", " ",
      "and", " ", "maximum", " ", "health">>

ShortDescription == <<"Grants", " ", "health">>

CostStats == TotalCostKey :> <<"2500">>

\* Entries of items.json: an item with a cost, the same item known by a long,
\* by a short description only, the wiki's "Items" page and a category page.
ItemEntries ==
    {[name |-> Some(<<"Staff">>), url |-> None, stats |-> CostStats, descriptions |-> <<>>],
     [name |-> Some(<<"Staff">>), url |-> None, stats |-> <<>>,
      descriptions |-> <<LongDescription>>],
     [name |-> Some(<<"Staff">>), url |-> None, stats |-> <<>>,
      descriptions |-> <<ShortDescription>>],
     [name |-> Some(<<"Items">>), url |-> None, stats |-> CostStats, descriptions |-> <<>>],
     [name |-> Some(<<"Category:", "Items">>), url |-> Some(<<"wiki/", "Category:", "Items">>),
      stats |-> CostStats, descriptions |-> <<>>]}

\* The entries of the items.json that process_all reads: the item with a cost
\* and the "Items" page.
ItemData == {e \in ItemEntries : e.stats = CostStats /\ e.url = None}

\* Entries of a patch's god_balance list: two different changes to one god.
BalanceData == {[name |-> Some(<<"Zeus">>), title |-> Some(<<"Buff">>)],
                [name |-> Some(<<"Zeus">>), title |-> Some(<<"Zeus", " ", "Nerf">>)]}

\* Entries of patch_details.json; a patch is named by its title.
PatchData ==
    {[name |-> t, god_balance |-> b] :
        t \in {Some(<<"Open", " ", "Beta", " ", "16">>), Some(<<"Update", " ", "1.2">>)},
        b \in {l \in SeqsUpTo(BalanceData, MaxEntries) :
                  \A i, j \in 1..Len(l) : l[i] = l[j] => i = j}}

\* A data file: absent, or its list of entries.
FileArgs(entries) == {None} \cup {Some(l) : l \in DistinctLists(entries, MaxEntries)}

\* gods.py lines 35-95 and 113-165, for entries that carry names only.
GodDocuments(god_data) ==
    <<ProcessedDocument(GenerateDocumentId("god", Get(god_data.name), <<>>), "god",
                        Get(god_data.name),
                        GodMetadata(None, None, None, None, None, Len(god_data.abilities)))>>
    \o [i \in 1..Len(god_data.abilities) |->
           ProcessedDocument(
               GenerateDocumentId("ability", Get(god_data.abilities[i].name),
                                  <<[key |-> "god", value |-> Some(Get(god_data.name))]>>),
               "ability", Get(god_data.abilities[i].name),
               AbilityMetadata(god_data.name, None, None, FALSE, None))]

\* GodsProcessor.process, gods.py lines 11-33.
GodsProcess(gods) == Concat([i \in 1..Len(gods) |-> GodDocuments(gods[i])])

\* items.py lines 45-48: the patterns that mark wiki pages.
SkipWords == {"category:", "template:", "file:", "user:", "talk:", "help:", "special:",
              "media:"}

\* re.search(r'editing.*section', text)
EditingSection(text) ==
    \E i, j \in 1..Len(text) : i < j /\ Within("editing", text[i]) /\ Within("section", text[j])

\* items.py lines 50-52: some skip pattern is found in the text.
Skipped(text) == EditingSection(text) \/ \E w \in SkipWords : HasWord(text, w)

\* items.py line 55
GeneralPages == {<<"smite", " ", "2">>, <<"items">>, <<"game", " ", "modes">>, <<"gods">>}

StatIndicators == {"cost", "tier", "stats", "passive", "active"}

DescriptionIndicators == {"damage", "health", "protection", "ability", "passive"}

\* _is_actual_item, items.py lines 37-68.
IsActualItem(item_data) ==
    LET name == LowerText(Get(item_data.name))
        url == LowerText(Get(item_data.url))
        stats == item_data.stats
        descriptions == item_data.descriptions
        has_item_stats ==
            \E key \in DOMAIN stats : \E w \in StatIndicators : HasWord(LowerText(key), w)
        has_item_description ==
            \E i \in 1..Len(descriptions) :
                /\ TextLen(descriptions[i]) > 50
                /\ \E w \in DescriptionIndicators : HasWord(LowerText(descriptions[i]), w)
    IN /\ ~Skipped(name) /\ ~Skipped(url)
       /\ name \notin GeneralPages
       /\ (has_item_stats \/ has_item_description)

\* ItemsProcessor.process, items.py lines 12-35.
ItemsProcess(items) ==
    LET actual == SelectSeq(items, IsActualItem)
    IN [i \in 1..Len(actual) |->
           ProcessedDocument(GenerateDocumentId("item", Get(actual[i].name), <<>>), "item",
                             Get(actual[i].name),
                             ItemMetadata(StatsGet(actual[i].stats, ItemTypeKey),
                                          StatsGet(actual[i].stats, TotalCostKey),
                                          StatsGet(actual[i].stats, StatsKey),
                                          StatsGet(actual[i].stats, PassiveKey),
                                          StatsGet(actual[i].stats, ActiveKey)))]

\* patches.py lines 35-74 and 75-128 for one patch: its overview document and
\* one document per god_balance entry.
PatchDocuments(patch_data) ==
    LET title == patch_data.name
        god_balance == patch_data.god_balance
    IN <<ProcessedDocument(GenerateDocumentId("patch", Get(title), <<>>), "patch", Get(title),
                           PatchMetadata(title, <<>>, god_balance))>>
       \o [i \in 1..Len(god_balance) |->
              ProcessedDocument(
                  GenerateDocumentId(
                      "god_change", Get(god_balance[i].name),
                      <<[key |-> "patch", value |-> Some(ExtractPatchNumber(Get(title)))]>>),
                  "god_change",
                  Get(god_balance[i].name) \o <<" ", "-", " ">> \o Get(title),
                  GodChangeMetadata(title, god_balance[i].name, god_balance[i].title, 0))]

\* PatchProcessor.process, patches.py lines 11-33.
PatchProcess(patches) == Concat([i \in 1..Len(patches) |-> PatchDocuments(patches[i])])

OfType(documents, type) == SelectSeq(documents, LAMBDA d : d.type = type)

\* The names of the files the run methods write (gods.py 182-196, items.py
\* 198-204, patches.py 167-181) and of the combined file of process_all
\* (lines 95-103).
OutputNames(gods, items, patches, all_documents) ==
    (IF gods = None THEN {}
     ELSE {"gods_processed.json", "abilities_processed.json",
           "gods_and_abilities_processed.json"})
    \cup (IF items = None THEN {} ELSE {"items_processed.json"})
    \cup (IF patches = None THEN {}
          ELSE {"patches_processed.json", "god_changes_processed.json",
                "patches_and_changes_processed.json"})
    \cup (IF all_documents = <<>> THEN {} ELSE {"all_documents.json"})

\* What each written file holds, as file name -> documents.
OutputFiles(gods, items, patches, all_documents) ==
    [f \in OutputNames(gods, items, patches, all_documents) |->
        CASE f = "gods_processed.json" -> OfType(GodsProcess(Get(gods)), "god")
          [] f = "abilities_processed.json" -> OfType(GodsProcess(Get(gods)), "ability")
          [] f = "gods_and_abilities_processed.json" -> GodsProcess(Get(gods))
          [] f = "items_processed.json" -> ItemsProcess(Get(items))
          [] f = "patches_processed.json" -> OfType(PatchProcess(Get(patches)), "patch")
          [] f = "god_changes_processed.json" ->
                OfType(PatchProcess(Get(patches)), "god_change")
          [] f = "patches_and_changes_processed.json" -> PatchProcess(Get(patches))
          [] OTHER -> all_documents]

RECURSIVE SumCounts(_, _)
SumCounts(files, names) ==
    IF names = {} THEN 0
    ELSE LET f == CHOOSE n \in names : TRUE
         IN Len(files[f]) + SumCounts(files, names \ {f})

CombinedFiles == {"all_documents.json"}

\* The file names that get_processing_summary adds to the total, line 161.
CountedInTotal(files) == DOMAIN files \ CombinedFiles

\* get_processing_summary, orchestrator.py lines 137-167.
GetProcessingSummary(files) ==
    [files_created   |-> [f \in DOMAIN files |-> Len(files[f])],
     total_documents |-> SumCounts(files, CountedInTotal(files))]

\* process_all into an empty output directory, followed by
\* get_processing_summary, as main does (orchestrator.py lines 48-105, 194-197).
ProcessAll(gods, items, patches) ==
    /\ proc = NoProc
    /\ LET all_documents == GodsProcess(Get(gods)) \o ItemsProcess(Get(items))
                               \o PatchProcess(Get(patches))
           files == OutputFiles(gods, items, patches, all_documents)
       IN proc' = [op |-> "process_all", gods |-> gods, items |-> items,
                   patches |-> patches, all_documents |-> all_documents,
                   summary |-> GetProcessingSummary(files)]
    /\ UNCHANGED <<ChatVars, StoreVars, SearchVars, ApiVars, fetch, provider>>

\* ItemsProcessor.run, items.py lines 198-204 (base.py lines 73-78): the
\* documents written to items_processed.json.
ItemsRun(items) ==
    /\ proc = NoProc
    /\ proc' = [op |-> "items_run", items |-> items, documents |-> ItemsProcess(items)]
    /\ UNCHANGED <<ChatVars, StoreVars, SearchVars, ApiVars, fetch, provider>>

InitProcessors ==
    /\ fetch = NoFetch /\ provider = NoProvider /\ proc = NoProc
    /\ ChatIdle /\ StoreIdle /\ SearchIdle /\ ApiIdle

NextProcessors ==
    \/ \E name \in IdNames, value \in KwValues, other \in KwValues :
            GenerateIds("ability", name, "god", value, other)
    \/ \E name \in PlainArgs, pantheon \in FieldArgs, roles \in FieldArgs,
          title \in FieldArgs, release_date \in PlainArgs, ability_count \in 0..1 :
            CreateGodDocument(name, pantheon, roles, title, release_date, ability_count)
    \/ \E god_name \in PlainArgs, ability_name \in PlainArgs, ability_type \in FieldArgs,
          description \in FieldArgs, has_stats \in BOOLEAN :
            CreateAbilityDocument(god_name, ability_name, ability_type, description,
                                  has_stats)
    \/ \E name \in PlainArgs, item_type \in ItemTypeArgs, total_cost \in CostArgs,
          stats_field \in StatsArgs, passive \in PlainArgs :
            CreateItemDocument(name, item_type, total_cost, stats_field, passive)
    \/ \E title \in PatchTitles, has_highlights \in BOOLEAN, god_balance \in GodBalances :
            CreatePatchDocument(title, has_highlights, god_balance)
    \/ \E patch_title \in PatchTitles, god_name \in PlainArgs,
          change_title \in ChangeTitles, change_count \in 0..1 :
            CreateGodChangeDocument(patch_title, god_name, change_title, change_count)
    \/ \E gods \in FileArgs(GodData), items \in FileArgs(ItemData),
          patches \in FileArgs(PatchData) :
            ProcessAll(gods, items, patches)
    \/ \E items \in DistinctLists(ItemEntries, MaxEntries) : ItemsRun(items)

SpecProcessors == InitProcessors /\ [][NextProcessors]_vars

\* ------------------------------------------------------------------------
\* Properties of the ChatBot
\* ------------------------------------------------------------------------

RECURSIVE FlattenPairs(_)
\* The history entries of a sequence of (message, reply) turns.
FlattenPairs(turns) ==
    IF turns = <<>> THEN <<>>
    ELSE <<ChatMessage("user", <<Head(turns)[1]>>),
           ChatMessage("assistant", <<Head(turns)[2]>>)>>
         \o FlattenPairs(Tail(turns))

LastTurns(turns, n) == SubSeq(turns, Len(turns) - n + 1, Len(turns))

\* C1 (history bounding): with memory enabled on every call and N =
\* max_conversation_history, after k chat() calls have returned the history
\* holds exactly min(2k, 2N) messages: the user message and the reply of the
\* most recent min(k, N) calls, oldest first.
C1_HistoryBounding ==
    (all_memory /\ max_history >= 1) =>
        /\ Len(chat_log) = returned
        /\ Len(conversation_history) = Min(2 * returned, 2 * max_history)
        /\ conversation_history =
               FlattenPairs(LastTurns(chat_log, Min(returned, max_history)))

\* C1 witness: more calls returned than N, so the oldest pair has been evicted.
C1_Witness ==
    /\ all_memory
    /\ max_history >= 1
    /\ returned > max_history
    /\ Len(conversation_history) = 2 * max_history
    /\ conversation_history[1].content # <<chat_log[1][1]>>

\* C2 (memory-disabled statelessness): a chat() call made while memory is
\* disabled hands the provider at most one system message (only when a system
\* prompt was given) followed by exactly one user message, and leaves the
\* conversation history as it was.
C2_MemoryDisabledStateless ==
    (last_call.outcome # "none" /\ ~last_call.memory) =>
        /\ Len(last_call.msgs) = (IF last_call.system = "given" THEN 2 ELSE 1)
        /\ last_call.msgs[Len(last_call.msgs)].role = "user"
        /\ \A i \in 1..(Len(last_call.msgs) - 1) : last_call.msgs[i].role = "system"
        /\ (last_call.system # "given" => Len(last_call.msgs) = 1)
        /\ last_call.hist_after = last_call.hist_before

\* C2 witness: a memory-disabled call that returned while the history still
\* held the turns of earlier memory-enabled calls.
C2_Witness ==
    /\ last_call.outcome = "returned"
    /\ ~last_call.memory
    /\ last_call.hist_before # <<>>
    /\ last_call.system = "given"
    /\ Len(last_call.msgs) = 2

\* C7 (generation failures never reach the caller): a chat() call on the
\* OpenAI-backed provider during which the external LLM call fails returns a
\* response that carries the error text and no usage, instead of raising.
C7_GenerationFailureReturned ==
    (last_call.outcome # "none" /\ llm_kind = "openai" /\ last_call.api_fails) =>
        /\ last_call.outcome = "returned"
        /\ last_call.content # <<>>

\* Positions of an event in the record of a chat() call.
EventAt(name) == {i \in 1..Len(last_call.events) : last_call.events[i] = name}

\* C11 (retrieval before generation): in every chat() call that uses RAG with
\* a store attached the store search is issued and has returned before the
\* provider's generation call is issued, the generation call is issued exactly
\* once in the call, and it is issued only after the user message, bare or
\* RAG-augmented, has been fixed.
C11_RetrievalBeforeGeneration ==
    (last_call.outcome # "none" /\ last_call.use_rag /\ last_call.searches > 0) =>
        /\ Cardinality(EventAt("search_issued")) = 1
        /\ Cardinality(EventAt("search_returned")) = 1
        /\ Cardinality(EventAt("generate_issued")) = 1
        /\ \A s \in EventAt("search_issued"), t \in EventAt("search_returned") : s < t
        /\ \A g \in EventAt("generate_issued") :
              /\ \A t \in EventAt("search_returned") : t < g
              /\ \E u \in EventAt("user_message_fixed") : u < g

\* C15 (history of a default-constructed chatbot): on a ChatBot constructed
\* with default arguments, every chat(message, use_rag=False) call returns and
\* appends one user message holding the message and then one assistant message
\* holding the reply to the conversation history; get_history() returns the
\* history and clear_history() leaves it empty.
C15_DefaultHistory ==
    /\ (last_call.outcome # "none" /\ ~last_call.use_rag) =>
          /\ last_call.outcome = "returned"
          /\ last_call.hist_after =
                last_call.hist_before
                \o <<ChatMessage("user", <<last_call.message>>),
                     ChatMessage("assistant", <<last_call.reply>>)>>
    /\ method_call.name = "get_history" =>
          method_call.outcome = "returned" /\ method_call.value = conversation_history
    /\ method_call.name = "clear_history" =>
          method_call.outcome = "returned" /\ conversation_history = <<>>

\* C16 (similarity search invoked once): with a store attached through
\* set_vector_store, every chat(message, use_rag=True) call calls the store's
\* similarity_search exactly once and nothing else on the store, and returns
\* the provider's reply as the response content.
C16_SimilaritySearchOnce ==
    (last_call.outcome # "none" /\ last_call.use_rag /\ last_call.searches > 0) =>
        /\ last_call.store_calls = <<"similarity_search">>
        /\ last_call.outcome = "returned"
        /\ last_call.content = <<last_call.reply>>

\* C21 (RAG prompt fallback): _build_rag_prompt(query, []) is the query
\* itself; chat() sends the bare message as the user message whenever RAG is
\* off, no store is attached or retrieval returned nothing; with a non-empty
\* context the user message holds every context item's content in retrieval
\* order, followed by the original question.
C21_RagPromptFallback ==
    (last_call.outcome # "none" /\ EventAt("user_message_fixed") # {}) =>
        LET user == last_call.msgs[Len(last_call.msgs)].content
            ctx == last_call.context
        IN /\ last_call.msgs[Len(last_call.msgs)].role = "user"
           /\ BuildRagPrompt(last_call.message, <<>>) = <<last_call.message>>
           /\ (~last_call.use_rag \/ last_call.searches = 0 \/ ctx = <<>>) =>
                 user = <<last_call.message>>
           /\ ctx # <<>> =>
                 /\ last_call.use_rag /\ last_call.searches = 1
                 /\ \A i \in 1..Len(ctx) : \E p \in 1..Len(user) : user[p] = ctx[i].content
                 /\ \A i, j \in 1..Len(ctx) : i < j =>
                       \A p, q \in 1..Len(user) :
                          (user[p] = ctx[i].content /\ user[q] = ctx[j].content) => p < q
                 /\ \E q \in 1..(Len(user) - 1) :
                       /\ user[q] = "Question:" /\ user[q + 1] = last_call.message
                       /\ \A i \in 1..Len(ctx), p \in 1..Len(user) :
                             user[p] = ctx[i].content => p < q

C21_Witness ==
    /\ last_call.outcome = "returned"
    /\ last_call.use_rag
    /\ Len(last_call.context) = 2
    /\ Len(last_call.msgs[Len(last_call.msgs)].content) > 1

\* C23 (history keeps the original user text): a memory-enabled chat() call
\* whose user message was replaced by a RAG-augmented prompt appends the
\* original message as the user entry and the reply content as the assistant
\* entry, so the history never holds an augmented prompt; and every
\* memory-enabled call hands the provider, between the optional system message
\* and the new user message, exactly the history retained before the call, in
\* order.
C23_HistoryKeepsOriginal ==
    /\ \A i \in 1..Len(conversation_history) :
          \/ /\ conversation_history[i].role = "user"
             /\ \E m \in Messages : conversation_history[i].content = <<m>>
          \/ /\ conversation_history[i].role = "assistant"
             /\ \E r \in Replies : conversation_history[i].content = <<r>>
    /\ (last_call.outcome = "returned" /\ last_call.memory) =>
          LET h == last_call.hist_after
              n == Len(last_call.msgs)
              s == IF last_call.system = "given" THEN 1 ELSE 0
          IN /\ (last_call.context # <<>> /\ max_history >= 1) =>
                   /\ last_call.msgs[n].content # <<last_call.message>>
                   /\ Len(h) >= 2
                   /\ h[Len(h) - 1] = ChatMessage("user", <<last_call.message>>)
                   /\ h[Len(h)] = ChatMessage("assistant", last_call.content)
             /\ n = s + Len(last_call.hist_before) + 1
             /\ SubSeq(last_call.msgs, s + 1, n - 1) = last_call.hist_before
             /\ s = 1 => last_call.msgs[1].role = "system"
             /\ last_call.msgs[n].role = "user"

\* C23 witness: a memory-enabled call with a system prompt and a RAG-augmented
\* user message, made when the history already held the turn of an earlier
\* memory-enabled call.
C23_Witness ==
    /\ last_call.outcome = "returned" /\ last_call.memory
    /\ last_call.context # <<>> /\ last_call.system = "given"
    /\ last_call.hist_before # <<>>
    /\ Len(last_call.hist_after) >= 4
    /\ Len(last_call.msgs[Len(last_call.msgs)].content) > 1

\* C28 (history shape invariant): after any sequence of chat() calls, memory
\* toggles and history clears, the conversation history has even length at
\* most 2 x max_conversation_history, starts with a user message, alternates
\* user and assistant messages, and each assistant message is the reply to
\* the user message just before it: the history is the last turns of the
\* memory-enabled calls made since the last clear.
C28_HistoryShape ==
    LET h == conversation_history
        k == Len(h) \div 2
    IN /\ Len(h) % 2 = 0
       /\ Len(h) <= 2 * max_history
       /\ \A i \in 1..Len(h) : h[i].role = (IF i % 2 = 1 THEN "user" ELSE "assistant")
       /\ k <= Len(chat_log)
       /\ h = FlattenPairs(LastTurns(chat_log, k))

\* C28 witness: a full history that has evicted a turn, in a run where one
\* call was made with memory switched off.
C28_Witness ==
    /\ max_history >= 1
    /\ Len(conversation_history) = 2 * max_history
    /\ Len(chat_log) > max_history
    /\ returned > Len(chat_log)
    /\ ~all_memory

\* The transcript alternates user and assistant entries and ends with an
\* assistant entry.
TranscriptAlternates ==
    /\ Len(messages) % 2 = 0
    /\ \A i \in 1..Len(messages) :
          messages[i].role = (IF i % 2 = 1 THEN "user" ELSE "assistant")

\* C26 (UI transcript continuity): every submitted prompt makes the transcript
\* grow by exactly two entries, the user message and then one assistant entry
\* holding the reply with its sources or, when chat() raised, the error
\* message; so whenever no script run is handling a prompt the transcript
\* alternates user / assistant and no user message is left without an
\* assistant entry.
C26_TranscriptContinuity == script.pc = "idle" => TranscriptAlternates

\* ------------------------------------------------------------------------
\* Properties of the stores
\* ------------------------------------------------------------------------

\* C4 (idempotent re-ingestion): after any sequence of insert_document and
\* insert_documents calls the relational store holds at most one row per
\* document id, that row is the last Document with that id whose insert was
\* committed, and inserting a Document a second time leaves the rows that
\* inserting it once leaves.
C4_IdempotentReingestion ==
    /\ \A i, j \in 1..Len(db) : db[i].id = db[j].id => i = j
    /\ \A id \in DocIds : RowsWithId(db, id) = last_ok[id]
    /\ \A d \in StoreDocs :
          /\ InsertDocument(InsertDocument(db, d, TRUE), d, TRUE) = InsertDocument(db, d, TRUE)
          /\ InsertDocumentsRows(db, <<d, d>>, {}, "ok") = InsertDocument(db, d, TRUE)

\* A Document replaced the row an earlier, different Document with its id had left.
C4_Witness ==
    /\ ret.op = "add_document"
    /\ ret.replaced
    /\ RowsWithId(db, ret.doc.id) = {ret.doc}
    /\ Len(db) = 2

\* C5 (hybrid write path): add_document attempts the relational insert and
\* then the vector insert whatever the first one's outcome, and returns true
\* exactly when both succeeded; add_documents returns the smaller of the two
\* stores' success counts together with the number of documents passed, and
\* (0, 0) for an empty batch.
C5_HybridWritePath ==
    /\ ret.op = "add_document" =>
          /\ ret.attempts = <<"database.insert_document", "vector_store.add_document">>
          /\ ret.result = (ret.db_ok /\ ret.vec_ok)
          /\ ret.db_ok => (db # <<>> /\ db[Len(db)] = ret.doc)
          /\ ret.vec_ok => ret.doc.id \in IdsOf(vec)
    /\ ret.op = "add_documents" =>
          /\ ret.result = <<Min(ret.db_success, ret.vec_success), ret.n>>
          /\ ret.n = 0 => ret.result = <<0, 0>>

\* A batch whose two stores report different, non-zero success counts.
C5_Witness ==
    /\ ret.op = "add_documents"
    /\ ret.db_success > 0
    /\ ret.db_success < ret.vec_success
    /\ ret.result = <<ret.db_success, ret.n>>

\* C6 (sync_stores is a full rebuild): whenever sync_stores has returned and
\* clearing the collection did not fail, the vector store holds only
\* Documents the relational store holds for the five known types, and when no
\* re-add failed the two id sets are equal.
C6_SyncFullRebuild ==
    (ret.op = "sync_stores" /\ ~ret.clear_failed) =>
        /\ vec \subseteq Range(AllKnownDocs(db, 1))
        /\ ret.status # "partial" => IdsOf(vec) = IdsOf(Range(AllKnownDocs(db, 1)))

\* C12 (single-type population clears first): after populate_specific_type
\* has run for the CLI type t without a failing insert, the Documents of the
\* type t names that the two stores hold are exactly the Documents loaded
\* from t's processed file; a stale Document of that type is gone.
C12_PopulateClearsFirst ==
    (ret.op = "populate_specific_type" /\ ~ret.faults) =>
        /\ {r \in Range(db) : r.type = ProcessedType(ret.type)} = Range(ret.file_docs)
        /\ {d \in vec : d.type = ProcessedType(ret.type)} = Range(ret.file_docs)

\* C13 (vector store upsert): after add_document has succeeded in both stores
\* for a Document, the relational store and the vector collection each hold
\* exactly one entry for its id, and it is that Document.
C13_VectorUpsert ==
    (ret.op = "add_document" /\ ret.db_ok /\ ret.vec_ok) =>
        /\ RowsWithId(db, ret.doc.id) = {ret.doc}
        /\ {d \in vec : d.id = ret.doc.id} = {ret.doc}

\* C29 (sync flag soundness): in the result of HybridDocumentStore.get_stats,
\* sync_status.in_sync is true only when both stores reported a total
\* document count and the two counts are equal; when the stats call of either
\* store failed, in_sync is false.
C29_SyncFlagSound ==
    ret.op = "get_stats" =>
        /\ ret.sync_status.in_sync =>
              /\ ret.db_stats # None /\ ret.vector_stats # None
              /\ ret.db_stats.value = ret.vector_stats.value
        /\ (ret.db_stats = None \/ ret.vector_stats = None) => ~ret.sync_status.in_sync

\* C30 (population CLI on empty input): a run of the population entry point
\* on a processed-data directory that yields no loadable document (no
\* matching files, an empty file, a file whose load fails) completes normally
\* and reports zero total and zero successful documents.
C30_EmptyInputCompletes ==
    (ret.op = "populate_main" /\ ret.loaded = 0) =>
        /\ ret.outcome = "completed"
        /\ ret.results.total_documents = 0
        /\ ret.results.successful_documents = 0

\* ------------------------------------------------------------------------
\* Properties of search
\* ------------------------------------------------------------------------

\* C3 (hybrid search result ordering): in the list a hybrid-mode search
\* returns, every structured-origin result precedes every semantic-origin
\* result, similarity is non-increasing within each origin group, no document
\* id appears twice, and there are at most n_results entries.
C3_HybridOrdering ==
    search.mode = "hybrid" =>
        LET r == search.results
        IN /\ \A i \in 1..Len(r) : r[i].search_type \in {"structured", "semantic"}
           /\ \A i, j \in 1..Len(r) : i < j =>
                 /\ ~(r[i].search_type = "semantic" /\ r[j].search_type = "structured")
                 /\ r[i].search_type = r[j].search_type => r[i].similarity >= r[j].similarity
                 /\ r[i].id # r[j].id
           /\ Len(r) <= search.n_results

\* A hybrid search that returned results of both origins, with two semantic
\* results of different similarity, after dropping a semantic hit whose id a
\* structured hit already carried.
C3_Witness ==
    /\ search.mode = "hybrid"
    /\ \E i, j, k \in 1..Len(search.results) :
          /\ search.results[i].search_type = "structured"
          /\ search.results[j].search_type = "semantic"
          /\ search.results[k].search_type = "semantic"
          /\ search.results[j].similarity > search.results[k].similarity
    /\ IdsOf(Range(search.structured_results)) \cap IdsOf(Range(search.semantic_results)) # {}

\* The positions of r holding a result of the given origin.
OfOrigin(r, origin) == {i \in 1..Len(r) : r[i].search_type = origin}

\* C22 (structured share of hybrid search): a hybrid-mode search with
\* n_results >= 1 fetches at most n_results // 2 structured matches, the
\* returned list holds at most n_results // 2 structured-origin results (none
\* when n_results = 1), and the places left go to the semantic results whose
\* id no structured result carries, as far as they exist.
C22_StructuredShare ==
    (search.mode = "hybrid" /\ search.n_results >= 1) =>
        LET r == search.results
            half == search.n_results \div 2
            fresh == IdsOf(Range(search.semantic_results))
                        \ IdsOf(Range(search.structured_results))
        IN /\ Len(search.structured_results) <= half
           /\ Cardinality(OfOrigin(r, "structured")) <= half
           /\ search.n_results = 1 => OfOrigin(r, "structured") = {}
           /\ Cardinality(OfOrigin(r, "semantic")) =
                 Min(search.n_results - Cardinality(OfOrigin(r, "structured")),
                     Cardinality(fresh))

\* C27 (type filter holds in every search mode): a search with doc_type = T
\* returns only documents whose type is T, whether the mode is semantic,
\* structured or hybrid.
C27_TypeFilter ==
    (search.mode \in SearchModes /\ search.doc_type # "none") =>
        \A i \in 1..Len(search.results) : search.results[i].type = search.doc_type

\* ------------------------------------------------------------------------
\* Properties of the HTTP API
\* ------------------------------------------------------------------------

\* The positions in handled of the /chat requests whose handler body ran.
ChatHandled == {i \in 1..Len(handled) : handled[i].endpoint = "chat" /\ handled[i].status # 503}

\* The requests at positions i < j were in flight at the same time.
Overlapped(i, j) == handled[j].arrival \in handled[i].concurrent

\* C8 (HTTP service lifecycle): once startup initialization has failed, the
\* service stays not-initialized in every later state: /health answers
\* "initializing", every /stats and /chat request is answered 503 without a
\* handler being given a chatbot, and initialize_chatbot is not called again.
C8_InitFailureLifecycle ==
    phase = "failed" =>
        /\ ~app_state.initialized
        /\ app_state.chatbot = "none"
        /\ init_attempts = 1
        /\ chatbot_reached = 0
        /\ \A r \in ReqIds : reqs[r].pc \in {"idle", "accepted"}
        /\ \A i \in 1..Len(handled) :
              /\ handled[i].endpoint = "health" =>
                    handled[i].status = 200 /\ handled[i].body = "initializing"
              /\ handled[i].endpoint \in {"stats", "chat"} =>
                    /\ handled[i].status = 503
                    /\ ~handled[i].generated
                    /\ handled[i].cfg_at_call = <<>>

\* After a failed startup a /health, a /stats and a /chat request have been answered.
C8_Witness ==
    /\ phase = "failed"
    /\ {handled[i].endpoint : i \in 1..Len(handled)} = Endpoints

\* C9 (per-request override persistence): a /chat request that carries no
\* override of a parameter, handled after a request that overrode it and with
\* no override of it in between, generates with the overridden value.
C9_OverridePersistence ==
    \A i, j \in ChatHandled : \A k \in DOMAIN handled[i].overrides :
        (/\ i < j
         /\ \A m \in ChatHandled : (i < m /\ m <= j) => k \notin DOMAIN handled[m].overrides)
        => /\ handled[j].generated
           /\ handled[j].cfg_at_call[k] = handled[i].overrides[k]

\* The generation call of the request handled at position i was issued with
\* the value the request at position j carries for a parameter both override
\* differently.
IssuedWithOthers(i, j) ==
    /\ i # j
    /\ handled[i].generated
    /\ \E k \in DOMAIN handled[i].overrides \cap DOMAIN handled[j].overrides :
          /\ handled[i].overrides[k] # handled[j].overrides[k]
          /\ handled[i].cfg_at_call[k] = handled[j].overrides[k]

RECURSIVE SleptAfter(_, _)
\* Total time slept in the sleeps recorded after attempt k.
SleptAfter(sleeps, k) ==
    IF sleeps = <<>> THEN 0
    ELSE (IF Head(sleeps).after = k THEN Head(sleeps).secs ELSE 0) + SleptAfter(Tail(sleeps), k)

FetchRetryState ==
    fetch.pc # "idle" =>
        LET retries == Retries(fetch.max_retries)
            delay == AttemptDelay(fetch.delay_seconds)
            n == Len(fetch.gets)
            done == fetch.pc = "done"
            succeeded == n > 0 /\ fetch.gets[n] = "ok"
        IN /\ n <= retries \/ (n = 0 /\ retries < 1)
           \* no attempt follows a successful one
           /\ \A i \in 1..(n - 1) : fetch.gets[i] # "ok"
           /\ ~done => ~succeeded /\ fetch.result.kind = "none"
           /\ (done /\ succeeded) =>
                 fetch.result = [kind |-> "returned", attempt |-> n]
           /\ (done /\ ~succeeded /\ retries >= 1) =>
                 /\ n = retries
                 /\ fetch.result = [kind |-> "raised", error |-> fetch.gets[n], attempt |-> n]
           /\ (done /\ retries < 1) =>
                 n = 0 /\ fetch.result.kind = "raised" /\ fetch.result.error = "RuntimeError"
           \* the sleeps
           /\ \A k \in 1..n :
                 IF done /\ ~succeeded /\ k = n
                 THEN ~\E i \in 1..Len(fetch.sleeps) : fetch.sleeps[i].after = k
                 ELSE SleptAfter(fetch.sleeps, k) = delay
           /\ \A i \in 1..Len(fetch.sleeps) : fetch.sleeps[i].after \in 1..n

\* C14 (scraper fetch retry): BaseScraper.get makes at most max_retries GET
\* attempts and then ends; it returns the response of the first successful
\* attempt and makes no further attempt; after max_retries failures in a row
\* it raises the error of the last attempt; it sleeps delay_seconds after each
\* failed attempt that another attempt follows and after the successful
\* attempt, and not after the final failed attempt.
C14_FetchRetry == []FetchRetryState /\ (fetch.pc = "loop" ~> fetch.pc = "done")

C14_Witness ==
    /\ fetch.pc = "done"
    /\ fetch.result.kind = "raised"
    /\ Len(fetch.gets) = Retries(fetch.max_retries)
    /\ Len(fetch.gets) >= 2
    /\ Len(fetch.sleeps) = Len(fetch.gets) - 1
    /\ AttemptDelay(fetch.delay_seconds) > 0

\* ------------------------------------------------------------------------
\* Properties of the provider object
\* ------------------------------------------------------------------------

\* C17 (validated setters): set_temperature(v) stores v as the configured
\* temperature exactly when 0 <= v <= 2, and set_max_tokens(n) stores n
\* exactly when n > 0; every other value raises ValueError and leaves the
\* whole configuration as it was; a stored value changes no other key.
C17_ValidatedSetters ==
    (provider.state = "constructed" /\ provider.last.op # "__init__") =>
        LET last == provider.last
            key == IF last.op = "set_temperature" THEN "temperature" ELSE "max_tokens"
            accepted == IF last.op = "set_temperature"
                        THEN 0 <= last.arg /\ last.arg <= 20
                        ELSE last.arg > 0
        IN IF accepted
           THEN /\ last.outcome = "returned"
                /\ provider.attrs.config = [last.config_before EXCEPT ![key] = last.arg]
           ELSE /\ last.outcome = "ValueError"
                /\ provider.attrs.config = last.config_before

C17_Witness ==
    /\ provider.state = "constructed"
    /\ provider.last.op = "set_temperature"
    /\ provider.last.arg = 20
    /\ provider.last.outcome = "returned"
    /\ provider.attrs.config["temperature"] = 20
    /\ provider.last.config_before["temperature"] # 20

\* C18 (provider construction): constructing the provider raises exactly when
\* neither the api_key argument nor OPENAI_API_KEY holds a key; otherwise the
\* instance records as api_key the argument if given and else the environment
\* value, and records the requested model name as its model_name.
C18_ProviderConstruction ==
    provider.state # "none" =>
        LET a == provider.args
        IN /\ provider.state = "raised" <=> (~Truthy(a.api_key) /\ ~Truthy(a.env))
           /\ provider.state = "constructed" =>
                 /\ provider.attrs.api_key =
                       (IF Truthy(a.api_key) THEN a.api_key.value ELSE a.env.value)
                 /\ "model_name" \in DOMAIN provider.attrs
                 /\ provider.attrs["model_name"] = a.model_name

\* ------------------------------------------------------------------------
\* Properties of the processors
\* ------------------------------------------------------------------------

\* C19 (document id determinism and distinctness): generate_document_id
\* returns the same id when called twice with the same arguments, and two
\* calls that differ only in the value of a disambiguating keyword return
\* different ids.
C19_DocumentIdDistinct ==
    proc.op = "generate_document_id" =>
        /\ proc.id = proc.id_again
        /\ proc.value # proc.other => proc.id # proc.id_other

DocumentOps == {"_create_god_document", "_create_ability_document", "_create_item_document",
                "_create_patch_document", "_create_god_change_document"}

\* C20 (metadata never holds empty strings): no Document built by the gods,
\* items or patches processor has a metadata entry whose value is the empty
\* string.
C20_NoEmptyMetadata ==
    proc.op \in DocumentOps =>
        \A k \in DOMAIN proc.doc.metadata :
            ~(proc.doc.metadata[k].t = "str" /\ proc.doc.metadata[k].v = <<>>)

\* C24 (global id uniqueness within a processing run): the Documents that one
\* process_all run creates for different entries of the scraped files (god
\* changes of one god in two patches, two balance entries for one god inside
\* a patch, two abilities of one god) have pairwise different ids, so the run
\* has as many ids, and the relational store as many rows after ingesting
\* it, as Documents were produced.
C24_RunIdsUnique ==
    proc.op = "process_all" =>
        /\ \A i, j \in 1..Len(proc.all_documents) :
              proc.all_documents[i].id = proc.all_documents[j].id => i = j
        /\ Len(InsertDocumentsRows(<<>>, proc.all_documents, {}, "ok")) =
              Len(proc.all_documents)

\* C25 (processing summary counts each document once): after process_all,
\* get_processing_summary().total_documents equals the number of Documents
\* produced, which is the length of all_documents.json when that file was
\* written.
C25_SummaryCountsOnce ==
    proc.op = "process_all" =>
        /\ proc.summary.total_documents = Len(proc.all_documents)
        /\ "all_documents.json" \in DOMAIN proc.summary.files_created =>
              proc.summary.files_created["all_documents.json"] = Len(proc.all_documents)

====
